---- MODULE Spec2Model ----
(***************************************************************************)
(* The x402 facilitator server: the /verify and /settle handlers of        *)
(* src/main.rs (Facilitator<S>) and src/src/bin/facilitator.rs             *)
(* (SimpleFacilitator, the same pipeline over a private HashMap), running  *)
(* as concurrent tasks over one nonce store, which is either the           *)
(* InMemoryStorage or the RedisStorage of src/src/facilitator_storage.rs.  *)
(*                                                                         *)
(* Strings of the wire format are sequences of one-character strings, so   *)
(* that parsing and case conversion are computed and not assumed.          *)
(* Integer parsing does not model overflow: every numeric string of the    *)
(* model is far below 2^63.                                                *)
(***************************************************************************)
EXTENDS Integers, Sequences, FiniteSets, TLC

VARIABLES backend, now, nonces, redis, reqs, marked_at, calls, lock

vars == <<backend, now, nonces, redis, reqs, marked_at, calls, lock>>

(***************************************************************************)
(* Bounds of the model.                                                    *)
(***************************************************************************)
NumRequests == 2        \* request tasks the server runs
MaxSkew == 1            \* seconds the clock may advance besides one TTL jump
Now0 == 10              \* the clock when the server starts
MaxCalls == 4           \* calls a caller of the store's own interface makes

(***************************************************************************)
(* Program constants.                                                      *)
(***************************************************************************)
X402_VERSION == 1
NONCE_TTL_SECONDS == 86400
KEY_PREFIX == "x402:nonce:"
NONE == "none"

Requests == 1..NumRequests

(***************************************************************************)
(* Strings: decimal formatting and parsing, lowercase.                     *)
(***************************************************************************)
Digits == <<"0", "1", "2", "3", "4", "5", "6", "7", "8", "9">>

IsDigit(c) == \E d \in 1..10 : Digits[d] = c

DigitVal(c) == (CHOOSE d \in 1..10 : Digits[d] = c) - 1

RECURSIVE ToDec(_)
ToDec(n) == IF n < 10 THEN <<Digits[n + 1]>>
            ELSE Append(ToDec(n \div 10), Digits[(n % 10) + 1])

RECURSIVE DigitsValue(_)
DigitsValue(s) == IF Len(s) = 0 THEN 0
                  ELSE DigitsValue(SubSeq(s, 1, Len(s) - 1)) * 10 + DigitVal(s[Len(s)])

AllDigits(s) == Len(s) > 0 /\ \A i \in 1..Len(s) : IsDigit(s[i])

ParseOk(v) == [ok |-> TRUE, value |-> v]
ParseErr == [ok |-> FALSE, value |-> 0]

\* str::parse::<u128>: an optional '+', then one or more decimal digits.
parse_u128(s) ==
    LET body == IF Len(s) > 0 /\ s[1] = "+" THEN Tail(s) ELSE s
    IN  IF AllDigits(body) THEN ParseOk(DigitsValue(body)) ELSE ParseErr

\* str::parse::<i64>: an optional '+' or '-', then one or more decimal digits.
parse_i64(s) ==
    LET signed == Len(s) > 0 /\ s[1] \in {"+", "-"}
        body == IF signed THEN Tail(s) ELSE s
    IN  IF ~AllDigits(body) THEN ParseErr
        ELSE IF signed /\ s[1] = "-" THEN ParseOk(0 - DigitsValue(body))
        ELSE ParseOk(DigitsValue(body))

LowerChar(c) ==
    CASE c = "A" -> "a" [] c = "B" -> "b" [] c = "C" -> "c"
      [] c = "D" -> "d" [] c = "E" -> "e" [] c = "F" -> "f"
      [] OTHER -> c

\* String::to_lowercase, as PaymentMiddlewareConfig::new applies it to pay_to.
to_lowercase(s) == [i \in 1..Len(s) |-> LowerChar(s[i])]

(***************************************************************************)
(* Results.                                                                *)
(***************************************************************************)
NoResponse == [is_valid |-> FALSE, invalid_reason |-> NONE, payer |-> <<>>,
               success |-> FALSE, error_reason |-> NONE, transaction |-> NONE,
               network |-> NONE]

VerifyResponse(is_valid, invalid_reason, payer) ==
    [NoResponse EXCEPT !.is_valid = is_valid, !.invalid_reason = invalid_reason,
                       !.payer = payer]

SettleResponse(success, error_reason, transaction, network, payer) ==
    [NoResponse EXCEPT !.success = success, !.error_reason = error_reason,
                       !.transaction = transaction, !.network = network,
                       !.payer = payer]

Ok(v) == [ok |-> TRUE, value |-> v, error |-> NONE]
Err(e) == [ok |-> FALSE, value |-> NoResponse, error |-> e]
Pending == Err("pending")

(***************************************************************************)
(* Signatures.  A signature is the pair of the signing key's address and   *)
(* the digest it was made over; a digest is the tuple of what               *)
(* create_transfer_with_authorization_hash hashes.  Recovery over the      *)
(* signed digest yields the signer, over any other digest an address       *)
(* nobody holds.                                                           *)
(***************************************************************************)
UNRELATED_ADDRESS == <<"0", "x", "e", "e">>

NetworkConfig_from_name(name) ==
    CASE name = "base" -> [known |-> TRUE, chain_id |-> 8453]
      [] name = "base-sepolia" -> [known |-> TRUE, chain_id |-> 84532]
      [] OTHER -> [known |-> FALSE, chain_id |-> 0]

create_transfer_with_authorization_hash(chain_id, auth) ==
    <<chain_id, to_lowercase(auth.from), to_lowercase(auth.to),
      DigitsValue(auth.value), DigitsValue(auth.valid_after),
      DigitsValue(auth.valid_before), auth.nonce>>

sign_message_hash(message_hash, signer) ==
    [signer |-> signer, message_hash |-> message_hash]

recover_from_prehash(message_hash, signature) ==
    IF signature.message_hash = message_hash
    THEN to_lowercase(signature.signer)
    ELSE UNRELATED_ADDRESS

\* crypto::signature::verify_payment_payload: TRUE, FALSE or "error".
verify_payment_payload(payload, expected_from, network) ==
    LET auth == payload.authorization
        network_config == NetworkConfig_from_name(network)
    IN  IF ~network_config.known
           \/ ~AllDigits(auth.value)
           \/ ~AllDigits(auth.valid_after)
           \/ ~AllDigits(auth.valid_before)
        THEN "error"
        ELSE recover_from_prehash(
                 create_transfer_with_authorization_hash(network_config.chain_id, auth),
                 payload.signature) = to_lowercase(expected_from)

(***************************************************************************)
(* The requests the clients send.                                          *)
(***************************************************************************)
PAYER == <<"0", "x", "c", "1">>
OTHER_PAYER == <<"0", "x", "d", "2">>
PAY_TO_CHECKSUM == <<"0", "x", "A", "b">>
PAY_TO_LOWER == to_lowercase(PAY_TO_CHECKSUM)
OTHER_RECIPIENT == <<"0", "x", "0", "1">>
\* A nonce as generate_nonce and the H256 formatter yield it: "0x" and the 64
\* hexadecimal digits of 32 bytes, here 31 zero bytes and one last byte.
NonceHex(last_byte) == <<"0", "x">> \o [i \in 1..62 |-> "0"] \o last_byte

NONCE_1 == NonceHex(<<"f", "3">>)
NONCE_2 == NonceHex(<<"0", "7">>)

\* Nonce strings a client can send that are not 32 bytes: one byte, and no
\* hexadecimal at all.
NONCE_SHORT == <<"0", "x", "f", "3">>
NONCE_NOT_HEX == <<"n", "o", "n", "c", "e">>

Nonces == {NONCE_1, NONCE_2}
NonceStrings == Nonces \cup {NONCE_SHORT, NONCE_NOT_HEX}

\* Other spellings of the 32 bytes of NONCE_1: the hexadecimal letters in
\* upper case, and the digits without the 0x in front.
NONCE_1_UPPER == NonceHex(<<"F", "3">>)
NONCE_1_BARE == SubSeq(NONCE_1, 3, Len(NONCE_1))
NonceSpellings == {NONCE_1_UPPER, NONCE_1_BARE}

\* Every nonce string a request of the model carries.
NonceKeys == NonceStrings \cup NonceSpellings

\* Validity windows <<validAfter, validBefore>>: open at the start, already
\* expired at the start, and open for longer than the durable store's TTL.
WindowOpen == <<Now0 - 1, Now0>>
WindowExpired == <<Now0 - 2, Now0 - 1>>
WindowLong == <<Now0 - 1, Now0 + NONCE_TTL_SECONDS + 1>>
Windows == {WindowOpen, WindowExpired, WindowLong}

\* Not yet valid when the server starts, valid from the next second.
WindowFuture == <<Now0 + 1, Now0 + 2>>

Authorization(from, to, value, window, nonce) ==
    [from |-> from, to |-> to, value |-> value,
     valid_after |-> ToDec(window[1]), valid_before |-> ToDec(window[2]),
     nonce |-> nonce]

\* A payload an honest client builds: signed by `key` over its own fields.
PaymentPayload(scheme, network, key, auth) ==
    [x402_version |-> X402_VERSION, scheme |-> scheme, network |-> network,
     payload |-> [signature |-> sign_message_hash(
                      create_transfer_with_authorization_hash(
                          NetworkConfig_from_name(network).chain_id, auth), key),
                  authorization |-> auth]]

PaymentRequirements ==
    [scheme |-> "exact", network |-> "base-sepolia",
     max_amount_required |-> ToDec(10), pay_to |-> PAY_TO_LOWER]

\* The happy path (spec scenario S1) for nonce n and window w.
Happy(n, w) ==
    PaymentPayload("exact", "base-sepolia", PAYER,
                   Authorization(PAYER, PAY_TO_LOWER, ToDec(10), w, n))

\* The payloads that differ from the happy path in one respect.
Deviations(n, w) ==
    { \* signed by a key that is not the payer's
      PaymentPayload("exact", "base-sepolia", OTHER_PAYER,
                     Authorization(PAYER, PAY_TO_LOWER, ToDec(10), w, n)),
      \* another payer
      PaymentPayload("exact", "base-sepolia", OTHER_PAYER,
                     Authorization(OTHER_PAYER, PAY_TO_LOWER, ToDec(10), w, n)),
      \* the recipient in EIP-55 checksum form
      PaymentPayload("exact", "base-sepolia", PAYER,
                     Authorization(PAYER, PAY_TO_CHECKSUM, ToDec(10), w, n)),
      \* another recipient
      PaymentPayload("exact", "base-sepolia", PAYER,
                     Authorization(PAYER, OTHER_RECIPIENT, ToDec(10), w, n)),
      \* underpaid, overpaid
      PaymentPayload("exact", "base-sepolia", PAYER,
                     Authorization(PAYER, PAY_TO_LOWER, ToDec(9), w, n)),
      PaymentPayload("exact", "base-sepolia", PAYER,
                     Authorization(PAYER, PAY_TO_LOWER, ToDec(11), w, n)),
      \* another scheme, another network
      PaymentPayload("upto", "base-sepolia", PAYER,
                     Authorization(PAYER, PAY_TO_LOWER, ToDec(10), w, n)),
      PaymentPayload("exact", "base", PAYER,
                     Authorization(PAYER, PAY_TO_LOWER, ToDec(10), w, n)) }

HappyPayload == Happy(NONCE_1, WindowOpen)

\* Strings that are not decimal integers.
NOT_A_NUMBER == <<"1", "0", ".", "5">>
HEX_NUMBER == <<"0", "x", "a">>

\* The happy payload with one field of its authorization overwritten after it
\* was signed: a number that is no decimal integer, a nonce that is not 32 bytes.
MalformedPayloads ==
    { [HappyPayload EXCEPT !.payload.authorization.value = NOT_A_NUMBER],
      [HappyPayload EXCEPT !.payload.authorization.valid_after = HEX_NUMBER],
      [HappyPayload EXCEPT !.payload.authorization.valid_before = NOT_A_NUMBER] }

BadNoncePayloads ==
    { [HappyPayload EXCEPT !.payload.authorization.nonce = n] :
          n \in NonceStrings \ Nonces }

Payloads ==
    { Happy(n, w) : n \in Nonces, w \in Windows }
    \cup {Happy(NONCE_1, WindowFuture)}
    \cup UNION { Deviations(n, WindowOpen) : n \in Nonces }
    \cup MalformedPayloads \cup BadNoncePayloads
    \cup { Happy(n, WindowOpen) : n \in NonceSpellings }

MalformedRequirements ==
    [PaymentRequirements EXCEPT !.max_amount_required = NOT_A_NUMBER]

\* VerifyRequest / SettleRequest bodies.
RequestBodies ==
    { [x402_version |-> X402_VERSION, payment_payload |-> p,
       payment_requirements |-> PaymentRequirements] : p \in Payloads }
    \cup { [x402_version |-> X402_VERSION, payment_payload |-> HappyPayload,
            payment_requirements |-> MalformedRequirements],
           [x402_version |-> 2, payment_payload |-> HappyPayload,
            payment_requirements |-> PaymentRequirements] }

\* The JSON object FacilitatorClient::verify and FacilitatorClient::settle post.
FacilitatorClient_request_body(payment_payload, payment_requirements) ==
    [paymentPayload |-> payment_payload,
     paymentRequirements |-> payment_requirements]

\* The JSON objects that reach the server: a record is an object, its field
\* names are the object's keys.  Besides the bodies in the server's own field
\* names, the body the client of this crate posts and the same body with a
\* version under the key x402Version.
WireBodies ==
    RequestBodies
    \cup { FacilitatorClient_request_body(HappyPayload, PaymentRequirements),
           [x402Version |-> X402_VERSION, paymentPayload |-> HappyPayload,
            paymentRequirements |-> PaymentRequirements] }

\* Json<VerifyRequest> / Json<SettleRequest>: the derived Deserialize takes each
\* field under the struct's own field name, ignores other keys, and fails on
\* a missing field; the extractor then rejects the request.
VerifyRequestFields == {"x402_version", "payment_payload", "payment_requirements"}

Json_from_request(body) == VerifyRequestFields \subseteq DOMAIN body

UNPROCESSABLE_ENTITY == 422
BAD_REQUEST == 400

(***************************************************************************)
(* The tokio RwLock around the HashMap of the in-memory store: the tasks   *)
(* that hold it for reading and the task that holds it for writing.        *)
(***************************************************************************)
Unlocked == [readers |-> {}, writer |-> 0]

\* RwLock::read().await resolves when no task writes.
RwLock_can_read(l) == l.writer = 0

\* RwLock::write().await resolves when no task reads or writes.
RwLock_can_write(l) == l.writer = 0 /\ l.readers = {}

RwLock_read(l, task) == [l EXCEPT !.readers = @ \cup {task}]

RwLock_write(l, task) == [l EXCEPT !.writer = task]

\* Mutant: the read guard outlives the block it was taken in.
RwLock_drop_read_kept(l, task) == l

\* The guard goes out of scope at the end of the block or of the function.
RwLock_drop_read(l, task) == [l EXCEPT !.readers = @ \ {task}]

RwLock_drop_write(l, task) == [l EXCEPT !.writer = 0]

(***************************************************************************)
(* The nonce stores (facilitator_storage.rs).                              *)
(***************************************************************************)
\* Mutant: the store answers for any nonce once it holds one.
InMemoryStorage_has_nonce_any(map, nonce) == DOMAIN map # {}

\* InMemoryStorage: HashMap<String, bool>, every operation under the RwLock.
InMemoryStorage_has_nonce(map, nonce) == nonce \in DOMAIN map

\* Mutant: marking a marked nonce unmarks it.
InMemoryStorage_mark_nonce_toggle(map, nonce) ==
    IF nonce \in DOMAIN map THEN [k \in DOMAIN map \ {nonce} |-> map[k]]
    ELSE [k \in DOMAIN map \cup {nonce} |-> IF k = nonce THEN TRUE ELSE map[k]]

\* Mutant: the insert replaces the map.
InMemoryStorage_mark_nonce_alone(map, nonce) == [k \in {nonce} |-> TRUE]

\* Mutant: the removal clears the map.
InMemoryStorage_remove_nonce_clear(map, nonce) == <<>>

\* Mutant: the insert is lost.
InMemoryStorage_mark_nonce_lost(map, nonce) == map

InMemoryStorage_mark_nonce(map, nonce) ==
    [k \in DOMAIN map \cup {nonce} |-> IF k = nonce THEN TRUE ELSE map[k]]

InMemoryStorage_remove_nonce(map, nonce) ==
    [k \in DOMAIN map \ {nonce} |-> map[k]]

\* RedisStorage: the keyspace maps a key to its value and the time it expires.
RedisStorage_make_key(nonce) == <<KEY_PREFIX, nonce>>

RedisStorage_has_nonce(db, nonce) == RedisStorage_make_key(nonce) \in DOMAIN db

\* conn.set_ex(key, "1", 86400): SET key "1" EX 86400, whether the key exists or not.
RedisStorage_mark_nonce(db, nonce, t) ==
    [k \in DOMAIN db \cup {RedisStorage_make_key(nonce)} |->
        IF k = RedisStorage_make_key(nonce)
        THEN [value |-> "1", expire_at |-> t + NONCE_TTL_SECONDS]
        ELSE db[k]]

RedisStorage_remove_nonce(db, nonce) ==
    [k \in DOMAIN db \ {RedisStorage_make_key(nonce)} |-> db[k]]

\* The server drops a key once its time to live has run out.
RedisExpire(db, t) == [k \in {j \in DOMAIN db : db[j].expire_at > t} |-> db[k]]

\* The Facilitator<S>'s self.storage, bound in main() by STORAGE_BACKEND.
Backends == {"memory", "redis"}

storage_has_nonce(nonce) ==
    IF backend = "memory" THEN InMemoryStorage_has_nonce(nonces, nonce)
    ELSE RedisStorage_has_nonce(redis, nonce)

\* Only a Redis connection or command can fail; the HashMap cannot.
StorageOutcomes == IF backend = "redis" THEN {"ok", "failed"} ELSE {"ok"}

(***************************************************************************)
(* verify_payment and settle_payment (main.rs, bin/facilitator.rs).        *)
(***************************************************************************)
\* ExactEvmPayloadAuthorization::is_valid_now at clock t.
is_valid_now(auth, t) ==
    LET valid_after == parse_i64(auth.valid_after)
        valid_before == parse_i64(auth.valid_before)
    IN  IF ~valid_after.ok \/ ~valid_before.ok THEN ParseErr
        ELSE ParseOk(t >= valid_after.value /\ t <= valid_before.value)

\* Mutant: the response names the payee as the payer.
Invalid_payee(reason, payload) ==
    Ok(VerifyResponse(FALSE, reason, payload.payload.authorization.to))

Invalid(reason, payload) ==
    Ok(VerifyResponse(FALSE, reason, payload.payload.authorization.from))

\* verify_payment once has_nonce has answered: the replay check.
nonce_check(has, payload) ==
    IF has THEN Invalid("nonce_already_used", payload) ELSE Pending

\* Mutant: an amount equal to the required one is rejected too.
policy_checks_strict(payload, requirements, t) ==
    LET auth == payload.payload.authorization
        valid == is_valid_now(auth, t)
        payment_amount == parse_u128(auth.value)
        required_amount == parse_u128(requirements.max_amount_required)
    IN  IF ~valid.ok THEN Err("invalid_authorization")
        ELSE IF ~valid.value THEN Invalid("authorization_expired", payload)
        ELSE IF ~payment_amount.ok \/ ~required_amount.ok
             THEN Err("invalid_payment_requirements")
        ELSE IF payment_amount.value <= required_amount.value
             THEN Invalid("insufficient_amount", payload)
        ELSE IF auth.to # requirements.pay_to
             THEN Invalid("recipient_mismatch", payload)
        ELSE Pending

\* verify_payment between has_nonce and mark_nonce: timing, amount, recipient.
\* Pending: every check passed and the nonce is to be marked.
policy_checks(payload, requirements, t) ==
    LET auth == payload.payload.authorization
        valid == is_valid_now(auth, t)
        payment_amount == parse_u128(auth.value)
        required_amount == parse_u128(requirements.max_amount_required)
    IN  IF ~valid.ok THEN Err("invalid_authorization")
        ELSE IF ~valid.value THEN Invalid("authorization_expired", payload)
        ELSE IF ~payment_amount.ok \/ ~required_amount.ok
             THEN Err("invalid_payment_requirements")
        ELSE IF payment_amount.value < required_amount.value
             THEN Invalid("insufficient_amount", payload)
        ELSE IF auth.to # requirements.pay_to
             THEN Invalid("recipient_mismatch", payload)
        ELSE Pending

\* Mutant: the result of mark_nonce is dropped instead of propagated with `?`.
mark_result_unchecked(outcome, payload) ==
    Ok(VerifyResponse(TRUE, NONE, payload.payload.authorization.from))

\* verify_payment once mark_nonce has answered.
mark_result(outcome, payload) ==
    IF outcome = "failed" THEN Err("storage")
    ELSE Ok(VerifyResponse(TRUE, NONE, payload.payload.authorization.from))

HexDigits == <<"0", "1", "2", "3", "4", "5", "6", "7", "8", "9",
               "a", "b", "c", "d", "e", "f">>

RECURSIVE ToHex(_)
ToHex(n) == IF n < 16 THEN <<HexDigits[n + 1]>>
            ELSE Append(ToHex(n \div 16), HexDigits[(n % 16) + 1])

HexVal(c) == (CHOOSE d \in 1..16 : HexDigits[d] = LowerChar(c)) - 1

IsHexDigit(c) == \E d \in 1..16 : HexDigits[d] = LowerChar(c)

\* str::trim_start_matches("0x"): every leading repetition of the prefix goes.
RECURSIVE trim_start_matches_0x(_)
trim_start_matches_0x(s) ==
    IF Len(s) >= 2 /\ s[1] = "0" /\ s[2] = "x"
    THEN trim_start_matches_0x(SubSeq(s, 3, Len(s)))
    ELSE s

\* hex::decode: an even number of hexadecimal digits, two to the byte.
hex_decode(s) ==
    IF Len(s) % 2 # 0 \/ \E i \in 1..Len(s) : ~IsHexDigit(s[i]) THEN ParseErr
    ELSE ParseOk([i \in 1..(Len(s) \div 2) |->
                     16 * HexVal(s[2 * i - 1]) + HexVal(s[2 * i])])

\* The nonce check of encode_message_fields: the string decodes to 32 bytes.
nonce_is_32_bytes(nonce_str) ==
    LET nonce_bytes == hex_decode(trim_start_matches_0x(nonce_str))
    IN  nonce_bytes.ok /\ Len(nonce_bytes.value) = 32

\* Mutant: the hash is formatted without its zero padding.
mock_transaction_hash_unpadded(n) == <<"0", "x">> \o ToHex(n)

\* format!("0x{:064x}", n)
mock_transaction_hash(n) ==
    <<"0", "x">> \o [i \in 1..(64 - Len(ToHex(n))) |-> "0"] \o ToHex(n)

\* The values rand::thread_rng().gen::<u128>() yields in the model.
RandomU128 == {7, 255}

\* Mutant: a settlement looks the nonce up as a verification does.
settle_payment_replay(payload, requirements, random) ==
    IF storage_has_nonce(payload.payload.authorization.nonce)
    THEN Ok(SettleResponse(FALSE, "nonce_already_used", <<>>, payload.network,
                           payload.payload.authorization.from))
    ELSE Ok(SettleResponse(TRUE, NONE, mock_transaction_hash(random), payload.network,
                           payload.payload.authorization.from))

settle_payment(payload, requirements, random) ==
    Ok(SettleResponse(TRUE, NONE, mock_transaction_hash(random), payload.network,
                      payload.payload.authorization.from))

\* Mutant: the handlers take any version.
version_mismatch_never(x402_version) == FALSE

\* verify_handler_* / settle_handler_*: request.x402_version != X402_VERSION.
version_mismatch(x402_version) == x402_version # X402_VERSION

\* verify_handler_* / settle_handler_*: the status of the HTTP response.
handler_status(result) == IF result.ok THEN 200 ELSE 500

(***************************************************************************)
(* The state machine.                                                      *)
(***************************************************************************)
Idle == [pc |-> "idle", kind |-> NONE, request |-> NONE, result |-> Pending,
         status |-> 0, after_valid |-> FALSE]

NonceOf(q) == q.request.payment_payload.payload.authorization.nonce

IsValidVerify(q) ==
    q.pc = "done" /\ q.kind = "verify" /\ q.status = 200 /\ q.result.value.is_valid

Init ==
    /\ backend \in Backends
    /\ now = Now0
    /\ nonces = <<>>
    /\ redis = <<>>
    /\ reqs = [r \in Requests |-> Idle]
    /\ marked_at = [n \in NonceKeys |-> -1]
    /\ calls = <<>>
    /\ lock = Unlocked

\* Requests are numbered in the order they arrive.
Arrives(r) ==
    /\ reqs[r].pc = "idle"
    /\ \A o \in Requests : o < r => reqs[o].pc # "idle"

\* verify_handler: the version check, then the call of verify_payment.
ReceiveVerifyOf(r, bodies) ==
    /\ Arrives(r)
    /\ \E body \in bodies :
          reqs' = [reqs EXCEPT ![r] =
              IF ~Json_from_request(body)
              THEN [Idle EXCEPT !.pc = "done", !.kind = "verify", !.request = body,
                                !.status = UNPROCESSABLE_ENTITY]
              ELSE
              [pc |-> IF version_mismatch(body.x402_version) THEN "done" ELSE "has_nonce",
               kind |-> "verify", request |-> body, result |-> Pending,
               status |-> IF version_mismatch(body.x402_version) THEN BAD_REQUEST ELSE 0,
               after_valid |-> \E o \in Requests :
                   /\ IsValidVerify(reqs[o])
                   /\ NonceOf(reqs[o]) = body.payment_payload.payload.authorization.nonce]]
    /\ UNCHANGED <<backend, now, nonces, redis, marked_at, calls, lock>>

Finish(r, result) ==
    reqs' = [reqs EXCEPT ![r].pc = "done", ![r].result = result,
                         ![r].status = handler_status(result)]

\* self.storage.has_nonce(nonce).await?
HasNonce(r) ==
    /\ reqs[r].pc = "has_nonce"
    /\ \E outcome \in StorageOutcomes :
          LET result == IF outcome = "failed" THEN Err("storage")
                        ELSE nonce_check(storage_has_nonce(NonceOf(reqs[r])),
                                         reqs[r].request.payment_payload)
          IN  IF result = Pending
              THEN reqs' = [reqs EXCEPT ![r].pc = "checks"]
              ELSE Finish(r, result)
    /\ UNCHANGED <<backend, now, nonces, redis, marked_at, calls, lock>>

\* is_valid_now, the amount check and the recipient check.
Checks(r) ==
    /\ reqs[r].pc = "checks"
    /\ LET result == policy_checks(reqs[r].request.payment_payload,
                                   reqs[r].request.payment_requirements, now)
       IN  IF result = Pending
           THEN reqs' = [reqs EXCEPT ![r].pc = "mark_nonce"]
           ELSE Finish(r, result)
    /\ UNCHANGED <<backend, now, nonces, redis, marked_at, calls, lock>>

\* self.storage.mark_nonce(nonce).await? and the Ok(VerifyResponse) after it.
MarkNonce(r) ==
    /\ reqs[r].pc = "mark_nonce"
    /\ \E outcome \in StorageOutcomes :
          /\ Finish(r, mark_result(outcome, reqs[r].request.payment_payload))
          /\ IF outcome = "failed"
             THEN UNCHANGED <<nonces, redis, marked_at>>
             ELSE /\ marked_at' = [marked_at EXCEPT ![NonceOf(reqs[r])] = now]
                  /\ IF backend = "memory"
                     THEN /\ nonces' = InMemoryStorage_mark_nonce(nonces, NonceOf(reqs[r]))
                          /\ UNCHANGED redis
                     ELSE /\ redis' = RedisStorage_mark_nonce(redis, NonceOf(reqs[r]), now)
                          /\ UNCHANGED nonces
    /\ UNCHANGED <<backend, now, calls, lock>>

\* A client posts any of the bodies to /verify.
ReceiveVerify(r) == ReceiveVerifyOf(r, WireBodies)

\* History: a verify of the body's nonce has already returned isValid:true.
AfterValid(body) ==
    \E o \in Requests :
        /\ IsValidVerify(reqs[o])
        /\ NonceOf(reqs[o]) = body.payment_payload.payload.authorization.nonce

\* settle_handler: the version check, then settle_payment.
SettleOf(r, bodies) ==
    /\ Arrives(r)
    /\ \E body \in bodies, random \in RandomU128 :
          LET result == settle_payment(body.payment_payload,
                                       body.payment_requirements, random)
          IN  reqs' = [reqs EXCEPT ![r] =
                  IF ~Json_from_request(body)
                  THEN [Idle EXCEPT !.pc = "done", !.kind = "settle",
                                    !.request = body, !.status = UNPROCESSABLE_ENTITY]
                  ELSE IF version_mismatch(body.x402_version)
                  THEN [Idle EXCEPT !.pc = "done", !.kind = "settle",
                                    !.request = body, !.status = BAD_REQUEST,
                                    !.after_valid = AfterValid(body)]
                  ELSE [Idle EXCEPT !.pc = "done", !.kind = "settle",
                                    !.request = body, !.result = result,
                                    !.status = handler_status(result),
                                    !.after_valid = AfterValid(body)]]
    /\ UNCHANGED <<backend, now, nonces, redis, marked_at, calls, lock>>

\* A client posts any of the bodies to /settle.
Settle(r) == SettleOf(r, WireBodies)

\* The clock advances, by a second or by the time to live of a Redis key.  It
\* is followed for MaxSkew seconds after the start and after one such jump.
Tick ==
    /\ \E d \in {1, NONCE_TTL_SECONDS} :
          /\ now + d <= Now0 + NONCE_TTL_SECONDS + MaxSkew
          /\ (now + d - Now0) % NONCE_TTL_SECONDS <= MaxSkew
          /\ now' = now + d
    /\ redis' = RedisExpire(redis, now')
    /\ UNCHANGED <<backend, nonces, reqs, marked_at, calls, lock>>

Next ==
    \/ \E r \in Requests : ReceiveVerify(r)
    \/ \E r \in Requests : HasNonce(r)
    \/ \E r \in Requests : Checks(r)
    \/ \E r \in Requests : MarkNonce(r)
    \/ \E r \in Requests : Settle(r)
    \/ Tick

Spec == Init /\ [][Next]_vars

(***************************************************************************)
(* The server with the in-memory store, its lock made visible: has_nonce   *)
(* and mark_nonce each wait for the RwLock, work on the map without        *)
(* suspending, and drop the guard.  A task that has arrived is scheduled   *)
(* again and again (the tokio runtime polls every task that can go on);    *)
(* nothing makes a client send a request.                                  *)
(***************************************************************************)
InitLive == Init /\ backend = "memory"

\* The bodies the clients post here: the happy path under two nonces, an
\* expired authorization, a version the server refuses, and the body of this
\* crate's client, which the extractor rejects.
LiveBodies ==
    { [x402_version |-> v, payment_payload |-> p,
       payment_requirements |-> PaymentRequirements] :
          v \in {X402_VERSION},
          p \in {Happy(NONCE_1, WindowOpen), Happy(NONCE_2, WindowOpen),
                 Happy(NONCE_1, WindowExpired)} }
    \cup { [x402_version |-> 2, payment_payload |-> HappyPayload,
            payment_requirements |-> PaymentRequirements],
           FacilitatorClient_request_body(HappyPayload, PaymentRequirements) }

ReceiveVerifyLive(r) == ReceiveVerifyOf(r, LiveBodies)

SettleLive(r) == SettleOf(r, LiveBodies)

\* self.nonces.read().await
AcquireRead(r) ==
    /\ reqs[r].pc = "has_nonce"
    /\ RwLock_can_read(lock)
    /\ lock' = RwLock_read(lock, r)
    /\ reqs' = [reqs EXCEPT ![r].pc = "reading"]
    /\ UNCHANGED <<backend, now, nonces, redis, marked_at, calls>>

\* Ok(nonces.contains_key(nonce)), the end of has_nonce, and the replay check.
ReadNonce(r) ==
    /\ reqs[r].pc = "reading"
    /\ LET result == nonce_check(InMemoryStorage_has_nonce(nonces, NonceOf(reqs[r])),
                                 reqs[r].request.payment_payload)
       IN  IF result = Pending
           THEN reqs' = [reqs EXCEPT ![r].pc = "checks"]
           ELSE Finish(r, result)
    /\ lock' = RwLock_drop_read(lock, r)
    /\ UNCHANGED <<backend, now, nonces, redis, marked_at, calls>>

\* self.nonces.write().await
AcquireWrite(r) ==
    /\ reqs[r].pc = "mark_nonce"
    /\ RwLock_can_write(lock)
    /\ lock' = RwLock_write(lock, r)
    /\ reqs' = [reqs EXCEPT ![r].pc = "writing"]
    /\ UNCHANGED <<backend, now, nonces, redis, marked_at, calls>>

\* nonces.insert(nonce.to_string(), true), the end of mark_nonce, and the
\* Ok(VerifyResponse) after it.
WriteNonce(r) ==
    /\ reqs[r].pc = "writing"
    /\ nonces' = InMemoryStorage_mark_nonce(nonces, NonceOf(reqs[r]))
    /\ marked_at' = [marked_at EXCEPT ![NonceOf(reqs[r])] = now]
    /\ Finish(r, mark_result("ok", reqs[r].request.payment_payload))
    /\ lock' = RwLock_drop_write(lock, r)
    /\ UNCHANGED <<backend, now, redis, calls>>

\* The steps of the task that serves request r.
StepLive(r) ==
    \/ AcquireRead(r)
    \/ ReadNonce(r)
    \/ Checks(r)
    \/ AcquireWrite(r)
    \/ WriteNonce(r)

NextLive ==
    \/ \E r \in Requests : ReceiveVerifyLive(r)
    \/ \E r \in Requests : AcquireRead(r)
    \/ \E r \in Requests : ReadNonce(r)
    \/ \E r \in Requests : Checks(r)
    \/ \E r \in Requests : AcquireWrite(r)
    \/ \E r \in Requests : WriteNonce(r)
    \/ \E r \in Requests : SettleLive(r)

SpecLive ==
    /\ InitLive
    /\ [][NextLive]_vars
    /\ \A r \in Requests : WF_vars(StepLive(r))

(***************************************************************************)
(* The NonceStorage interface of InMemoryStorage called directly, as the   *)
(* tests of facilitator_storage.rs call it: any sequence of mark_nonce,    *)
(* remove_nonce and has_nonce on a new store.  `calls` is the history of   *)
(* the calls that have returned; each call holds the lock for its whole    *)
(* body, so a call is one step.                                            *)
(***************************************************************************)
Call(op, nonce, answer) == [op |-> op, nonce |-> nonce, ok |-> TRUE, answer |-> answer]

InitStore ==
    /\ backend = "memory"
    /\ now = Now0
    /\ nonces = <<>>
    /\ redis = <<>>
    /\ reqs = [r \in Requests |-> Idle]
    /\ marked_at = [n \in NonceStrings |-> -1]
    /\ calls = <<>>
    /\ lock = Unlocked

CallMarkNonce(n) ==
    /\ Len(calls) < MaxCalls
    /\ nonces' = InMemoryStorage_mark_nonce(nonces, n)
    /\ calls' = Append(calls, Call("mark_nonce", n, NONE))
    /\ UNCHANGED <<backend, now, redis, reqs, marked_at, lock>>

CallRemoveNonce(n) ==
    /\ Len(calls) < MaxCalls
    /\ nonces' = InMemoryStorage_remove_nonce(nonces, n)
    /\ calls' = Append(calls, Call("remove_nonce", n, NONE))
    /\ UNCHANGED <<backend, now, redis, reqs, marked_at, lock>>

CallHasNonce(n) ==
    /\ Len(calls) < MaxCalls
    /\ calls' = Append(calls, Call("has_nonce", n, InMemoryStorage_has_nonce(nonces, n)))
    /\ UNCHANGED <<backend, now, nonces, redis, reqs, marked_at, lock>>

NextStore ==
    \/ \E n \in NonceStrings : CallMarkNonce(n)
    \/ \E n \in NonceStrings : CallRemoveNonce(n)
    \/ \E n \in NonceStrings : CallHasNonce(n)

SpecStore == InitStore /\ [][NextStore]_vars

(***************************************************************************)
(* The library functions (crypto/eip712.rs, crypto/signature.rs,           *)
(* types/payment.rs).  A byte string is a sequence of items: a byte, or    *)
(* the 32 bytes of a Keccak-256 digest, kept as the data it was computed   *)
(* from, so that two digests are equal exactly when their inputs are.      *)
(***************************************************************************)
Byte(n) == [byte |-> n, keccak256_of |-> <<>>]

Bytes(ns) == [i \in 1..Len(ns) |-> Byte(ns[i])]

keccak256(data) == <<[byte |-> -1, keccak256_of |-> data]>>

\* The number of bytes of a byte string.
ByteLength(data) ==
    Len(data) + 31 * Cardinality({i \in 1..Len(data) : data[i].byte = -1})

\* The characters of codes 92 and 96.
BACKSLASH == "backslash"
BACKTICK == "backtick"

\* The printable ASCII characters, from the space (code 32) to the tilde.
AsciiChars ==
    <<" ", "!", "\"", "#", "$", "%", "&", "'", "(", ")", "*", "+", ",",
      "-", ".", "/", "0", "1", "2", "3", "4", "5", "6", "7", "8", "9",
      ":", ";", "<", "=", ">", "?", "@", "A", "B", "C", "D", "E", "F",
      "G", "H", "I", "J", "K", "L", "M", "N", "O", "P", "Q", "R", "S",
      "T", "U", "V", "W", "X", "Y", "Z", "[", BACKSLASH, "]", "^", "_", BACKTICK,
      "a", "b", "c", "d", "e", "f", "g", "h", "i", "j", "k", "l", "m",
      "n", "o", "p", "q", "r", "s", "t", "u", "v", "w", "x", "y", "z",
      "{", "|", "}", "~">>

AsciiCode(c) == (CHOOSE i \in 1..Len(AsciiChars) : AsciiChars[i] = c) + 31

\* str::as_bytes
as_bytes(s) == [i \in 1..Len(s) |-> Byte(AsciiCode(s[i]))]

\* The last width bytes of the big-endian form of n, for n below 2^31.
to_be_bytes(n, width) ==
    [i \in 1..width |->
        Byte(IF width - i > 3 THEN 0
             ELSE (n \div (256 ^ (width - i))) % 256)]

\* hex::encode
hex_encode(ns) ==
    [i \in 1..(2 * Len(ns)) |->
        IF i % 2 = 1 THEN HexDigits[(ns[(i + 1) \div 2] \div 16) + 1]
        ELSE HexDigits[(ns[i \div 2] % 16) + 1]]

\* Address::from_str: an optional "0x", then the 40 digits of 20 bytes.
Address_from_str(s) ==
    LET digits == IF Len(s) >= 2 /\ s[1] = "0" /\ s[2] = "x"
                  THEN SubSeq(s, 3, Len(s)) ELSE s
        decoded == hex_decode(digits)
    IN  IF decoded.ok /\ Len(decoded.value) = 20 THEN decoded ELSE ParseErr

\* format!("{:?}", address) and format!("{:?}", h256)
format_hex(ns) == <<"0", "x">> \o hex_encode(ns)

\* format!("0x{:x}", u256): no leading zeros.
format_u256(n) == <<"0", "x">> \o ToHex(n)

\* The USDC contracts.
USDC_BASE ==
    <<"0", "x", "8", "3", "3", "5", "8", "9", "f", "C", "D", "6", "e",
      "D", "b", "6", "E", "0", "8", "f", "4", "c", "7", "C", "3", "2",
      "D", "4", "f", "7", "1", "b", "5", "4", "b", "d", "A", "0", "2",
      "9", "1", "3">>
USDC_BASE_SEPOLIA ==
    <<"0", "x", "0", "3", "6", "C", "b", "D", "5", "3", "8", "4", "2",
      "c", "5", "4", "2", "6", "6", "3", "4", "e", "7", "9", "2", "9",
      "5", "4", "1", "e", "C", "2", "3", "1", "8", "f", "3", "d", "C",
      "F", "7", "e">>
USDC_AVALANCHE ==
    <<"0", "x", "B", "9", "7", "E", "F", "9", "E", "f", "8", "7", "3",
      "4", "C", "7", "1", "9", "0", "4", "D", "8", "0", "0", "2", "F",
      "8", "b", "6", "B", "c", "6", "6", "D", "d", "9", "c", "4", "8",
      "a", "6", "E">>
USDC_AVALANCHE_FUJI ==
    <<"0", "x", "5", "4", "2", "5", "8", "9", "0", "2", "9", "8", "a",
      "e", "d", "6", "0", "1", "5", "9", "5", "a", "7", "0", "A", "B",
      "8", "1", "5", "c", "9", "6", "7", "1", "1", "a", "3", "1", "B",
      "c", "6", "5">>

USD_COIN == <<"U", "S", "D", " ", "C", "o", "i", "n">>
USDC == <<"U", "S", "D", "C">>

NetworkConfig_usdc_contract(name) ==
    CASE name = "base" -> USDC_BASE
      [] name = "base-sepolia" -> USDC_BASE_SEPOLIA
      [] OTHER -> <<>>

EIP712_DOMAIN_TYPE ==
    <<"E", "I", "P", "7", "1", "2", "D", "o", "m", "a", "i", "n", "(",
      "s", "t", "r", "i", "n", "g", " ", "n", "a", "m", "e", ",", "s",
      "t", "r", "i", "n", "g", " ", "v", "e", "r", "s", "i", "o", "n",
      ",", "u", "i", "n", "t", "2", "5", "6", " ", "c", "h", "a", "i",
      "n", "I", "d", ",", "a", "d", "d", "r", "e", "s", "s", " ", "v",
      "e", "r", "i", "f", "y", "i", "n", "g", "C", "o", "n", "t", "r",
      "a", "c", "t", ")">>

TRANSFER_WITH_AUTHORIZATION == <<"T", "r", "a", "n", "s", "f", "e", "r",
                                 "W", "i", "t", "h", "A", "u", "t", "h",
                                 "o", "r", "i", "z", "a", "t", "i", "o",
                                 "n">>

TRANSFER_FIELDS ==
    <<"(", "a", "d", "d", "r", "e", "s", "s", " ", "f", "r", "o", "m",
      ",", "a", "d", "d", "r", "e", "s", "s", " ", "t", "o", ",", "u",
      "i", "n", "t", "2", "5", "6", " ", "v", "a", "l", "u", "e", ",",
      "u", "i", "n", "t", "2", "5", "6", " ", "v", "a", "l", "i", "d",
      "A", "f", "t", "e", "r", ",", "u", "i", "n", "t", "2", "5", "6",
      " ", "v", "a", "l", "i", "d", "B", "e", "f", "o", "r", "e", ",",
      "b", "y", "t", "e", "s", "3", "2", " ", "n", "o", "n", "c", "e",
      ")">>

Domain(name, version, chain_id, verifying_contract) ==
    [name |-> name, version |-> version, chain_id |-> chain_id,
     verifying_contract |-> verifying_contract]

\* eip712::hash_domain; verifying_contract is the Address, 20 bytes.
hash_domain(domain) ==
    LET domain_type_hash == keccak256(as_bytes(EIP712_DOMAIN_TYPE))
        name_hash == keccak256(as_bytes(domain.name))
        version_hash == keccak256(as_bytes(domain.version))
        chain_id_hash == keccak256(to_be_bytes(domain.chain_id, 8))
        verifying_contract_hash == keccak256(Bytes(domain.verifying_contract))
    IN  keccak256(domain_type_hash \o name_hash \o version_hash
                  \o chain_id_hash \o verifying_contract_hash)

BytesOk(data) == [ok |-> TRUE, value |-> data, error |-> NONE]
BytesErr(e) == [ok |-> FALSE, value |-> <<>>, error |-> e]

\* An address in the low 20 bytes of a 32-byte word.
padded_address(addr_str) ==
    LET addr == Address_from_str(addr_str)
    IN  IF ~addr.ok THEN BytesErr("invalid_authorization")
        ELSE BytesOk(Bytes([i \in 1..12 |-> 0] \o addr.value))

\* A number, given in hexadecimal, at the end of a 32-byte word.
padded_number(hex_str) ==
    LET decoded == hex_decode(trim_start_matches_0x(hex_str))
    IN  IF ~decoded.ok THEN BytesErr("invalid_authorization")
        ELSE BytesOk(Bytes([i \in 1..(32 - Len(decoded.value)) |-> 0]
                           \o decoded.value))

nonce_bytes32(nonce_str) ==
    LET decoded == hex_decode(trim_start_matches_0x(nonce_str))
    IN  IF ~decoded.ok \/ Len(decoded.value) # 32
        THEN BytesErr("invalid_authorization")
        ELSE BytesOk(Bytes(decoded.value))

\* eip712::encode_message_fields: the six fields in order, the first error wins.
encode_message_fields(message) ==
    LET fields == <<padded_address(message.from), padded_address(message.to),
                    padded_number(message.value),
                    padded_number(message.validAfter),
                    padded_number(message.validBefore),
                    nonce_bytes32(message.nonce)>>
    IN  IF \E i \in 1..6 : ~fields[i].ok
        THEN fields[CHOOSE i \in 1..6 :
                        ~fields[i].ok /\ \A j \in 1..(i - 1) : fields[j].ok]
        ELSE BytesOk(fields[1].value \o fields[2].value \o fields[3].value
                     \o fields[4].value \o fields[5].value \o fields[6].value)

\* eip712::hash_struct
hash_struct(primary_type, message) ==
    LET type_hash == keccak256(as_bytes(primary_type \o TRANSFER_FIELDS))
        encoded_message == encode_message_fields(message)
        message_hash == keccak256(encoded_message.value)
    IN  IF ~encoded_message.ok THEN encoded_message
        ELSE BytesOk(keccak256(type_hash \o message_hash))

\* The message create_transfer_with_authorization_hash builds with json!
\* from an Address pair, three U256 and an H256.
transfer_message(from, to, value, valid_after, valid_before, nonce) ==
    [from |-> format_hex(from), to |-> format_hex(to),
     value |-> format_u256(value), validAfter |-> format_u256(valid_after),
     validBefore |-> format_u256(valid_before), nonce |-> format_hex(nonce)]

\* eip712::hash_typed_data
hash_typed_data(domain, primary_type, message) ==
    LET struct_hash == hash_struct(primary_type, message)
    IN  IF ~struct_hash.ok THEN struct_hash
        ELSE BytesOk(keccak256(Bytes(<<25, 1>>) \o hash_domain(domain)
                               \o struct_hash.value))

\* verify_payment_payload: the domain it builds for a network tag.
DomainOk(domain) == [ok |-> TRUE, domain |-> domain, error |-> NONE]
DomainErr(e) == [ok |-> FALSE, domain |-> Domain(<<>>, <<>>, 0, <<>>), error |-> e]

verify_payment_payload_domain(network) ==
    LET network_config == NetworkConfig_from_name(network)
        verifying_contract == Address_from_str(NetworkConfig_usdc_contract(network))
    IN  IF ~network_config.known THEN DomainErr("Unsupported network")
        ELSE IF ~verifying_contract.ok THEN DomainErr("Invalid verifying contract")
        ELSE DomainOk(Domain(USD_COIN, <<"2">>, network_config.chain_id,
                             verifying_contract.value))

\* A signature string.  r and s cannot be computed here: they are kept as
\* the key that signed, the digest it signed and the recovery id that
\* recovers the key.  `hex` says whether the string is hexadecimal, `tail`
\* holds the bytes that follow the 64 bytes of r and s.
SignatureString(hex, signer, message_hash, recovery_id, tail) ==
    [hex |-> hex,
     rs |-> [signer |-> signer, message_hash |-> message_hash,
             recovery_id |-> recovery_id],
     tail |-> tail]

BoolOk(b) == [ok |-> TRUE, value |-> b, error |-> NONE]
BoolErr(e) == [ok |-> FALSE, value |-> FALSE, error |-> e]

\* k256 RecoveryId::try_from(u8): the ids 0 to 3.
RecoveryId_try_from(v) == IF v \in 0..3 THEN ParseOk(v) ELSE ParseErr

\* VerifyingKey::recover_from_prehash and ethereum_address_from_pubkey: the
\* signer for the signed digest and the signature's own recovery id, another
\* key for another digest or the other parity, no key for the ids 2 and 3.
VerifyingKey_recover_from_prehash(message_hash, rs, recovery_id) ==
    IF recovery_id > 1 THEN [ok |-> FALSE, value |-> <<>>]
    ELSE IF rs.message_hash = message_hash /\ rs.recovery_id = recovery_id
         THEN [ok |-> TRUE, value |-> rs.signer]
    ELSE [ok |-> TRUE, value |-> UNRELATED_ADDRESS]

\* signature::verify_eip712_signature
verify_eip712_signature(signature, message_hash, expected_address) ==
    IF ~signature.hex THEN BoolErr("invalid_signature")
    ELSE IF 64 + Len(signature.tail) # 65 THEN BoolErr("invalid_signature")
    ELSE LET recovery_id == RecoveryId_try_from(signature.tail[1])
             recovered == VerifyingKey_recover_from_prehash(
                              message_hash, signature.rs, recovery_id.value)
         IN  IF ~recovery_id.ok THEN BoolErr("invalid_signature")
             ELSE IF ~recovered.ok THEN BoolErr("invalid_signature")
             ELSE BoolOk(recovered.value = expected_address)

(***************************************************************************)
(* PaymentPayload::to_base64 and from_base64 (types/payment.rs): the JSON  *)
(* text serde_json writes and reads, and base64 over its bytes.            *)
(***************************************************************************)
QUOTE == "\""

\* Mutant: strings are written without escapes.
json_escape_none(s) == s

\* serde_json writes a quote and a backslash behind a backslash.
RECURSIVE json_escape(_)
json_escape(s) ==
    IF Len(s) = 0 THEN <<>>
    ELSE IF s[1] \in {QUOTE, BACKSLASH}
         THEN <<BACKSLASH, s[1]>> \o json_escape(Tail(s))
    ELSE <<s[1]>> \o json_escape(Tail(s))

json_string(s) == <<QUOTE>> \o json_escape(s) \o <<QUOTE>>

json_member(name, text) == json_string(name) \o <<":">> \o text

\* The names the derived Serialize / Deserialize give the fields.
KEY_X402_VERSION == <<"x", "4", "0", "2", "V", "e", "r", "s", "i", "o",
                      "n">>
KEY_SCHEME == <<"s", "c", "h", "e", "m", "e">>
KEY_NETWORK == <<"n", "e", "t", "w", "o", "r", "k">>
KEY_PAYLOAD == <<"p", "a", "y", "l", "o", "a", "d">>
KEY_SIGNATURE == <<"s", "i", "g", "n", "a", "t", "u", "r", "e">>
KEY_AUTHORIZATION == <<"a", "u", "t", "h", "o", "r", "i", "z", "a", "t",
                      "i", "o", "n">>
KEY_FROM == <<"f", "r", "o", "m">>
KEY_TO == <<"t", "o">>
KEY_VALUE == <<"v", "a", "l", "u", "e">>
KEY_VALID_AFTER == <<"v", "a", "l", "i", "d", "A", "f", "t", "e", "r">>
KEY_VALID_BEFORE == <<"v", "a", "l", "i", "d", "B", "e", "f", "o", "r",
                      "e">>
KEY_NONCE == <<"n", "o", "n", "c", "e">>

\* serde_json::to_string(&PaymentPayload)
serde_json_to_string(p) ==
    LET auth == p.payload.authorization
        authorization ==
            <<"{">> \o json_member(KEY_FROM, json_string(auth.from))
            \o <<",">> \o json_member(KEY_TO, json_string(auth.to))
            \o <<",">> \o json_member(KEY_VALUE, json_string(auth.value))
            \o <<",">> \o json_member(KEY_VALID_AFTER, json_string(auth.valid_after))
            \o <<",">> \o json_member(KEY_VALID_BEFORE, json_string(auth.valid_before))
            \o <<",">> \o json_member(KEY_NONCE, json_string(auth.nonce))
            \o <<"}">>
        payload ==
            <<"{">> \o json_member(KEY_SIGNATURE, json_string(p.payload.signature))
            \o <<",">> \o json_member(KEY_AUTHORIZATION, authorization)
            \o <<"}">>
    IN  <<"{">> \o json_member(KEY_X402_VERSION, ToDec(p.x402_version))
        \o <<",">> \o json_member(KEY_SCHEME, json_string(p.scheme))
        \o <<",">> \o json_member(KEY_NETWORK, json_string(p.network))
        \o <<",">> \o json_member(KEY_PAYLOAD, payload)
        \o <<"}">>

\* The position of the quote that closes the string whose text starts at i;
\* past the end when there is none.
RECURSIVE string_end(_, _)
string_end(text, i) ==
    IF i > Len(text) THEN i
    ELSE IF text[i] = BACKSLASH THEN string_end(text, i + 2)
    ELSE IF text[i] = QUOTE THEN i
    ELSE string_end(text, i + 1)

RECURSIVE json_unescape(_)
json_unescape(s) ==
    IF Len(s) = 0 THEN <<>>
    ELSE IF s[1] = BACKSLASH /\ Len(s) >= 2
         THEN <<s[2]>> \o json_unescape(SubSeq(s, 3, Len(s)))
    ELSE <<s[1]>> \o json_unescape(Tail(s))

RECURSIVE number_end(_, _)
number_end(text, i) ==
    IF i <= Len(text) /\ IsDigit(text[i]) THEN number_end(text, i + 1) ELSE i

\* The tokens of a JSON text from position i: punctuation, strings, numbers.
Token(kind, text) == [kind |-> kind, text |-> text]

RECURSIVE json_tokens(_, _)
json_tokens(text, i) ==
    IF i > Len(text) THEN <<>>
    ELSE IF text[i] = QUOTE
         THEN LET end == string_end(text, i + 1)
              IN  IF end > Len(text) THEN <<Token("error", <<>>)>>
                  ELSE <<Token("string", json_unescape(SubSeq(text, i + 1, end - 1)))>>
                       \o json_tokens(text, end + 1)
    ELSE IF IsDigit(text[i])
         THEN <<Token("number", SubSeq(text, i, number_end(text, i) - 1))>>
              \o json_tokens(text, number_end(text, i))
    ELSE IF text[i] \in {"{", "}", ":", ","}
         THEN <<Token(text[i], <<>>)>> \o json_tokens(text, i + 1)
    ELSE IF text[i] = " " THEN json_tokens(text, i + 1)
    ELSE <<Token("error", <<>>)>>

\* The positions where a member of this name starts: the name, then a colon.
member_positions(tokens, name) ==
    { i \in 1..(Len(tokens) - 2) :
          /\ tokens[i].kind = "string" /\ tokens[i].text = name
          /\ tokens[i + 1].kind = ":" }

PayloadOk(p) == [ok |-> TRUE, value |-> p]
PayloadErr == [ok |-> FALSE, value |-> NONE]

\* serde_json::from_slice::<PaymentPayload> over the text of the bytes.
serde_json_from_text(text) ==
    LET tokens == json_tokens(text, 1)
        field(name, kind) ==
            LET at == member_positions(tokens, name)
            IN  IF Cardinality(at) = 1 /\ \A i \in at : tokens[i + 2].kind = kind
                THEN ParseOk(tokens[(CHOOSE i \in at : TRUE) + 2].text)
                ELSE ParseErr
        strings == <<field(KEY_SCHEME, "string"), field(KEY_NETWORK, "string"),
                     field(KEY_SIGNATURE, "string"), field(KEY_FROM, "string"),
                     field(KEY_TO, "string"), field(KEY_VALUE, "string"),
                     field(KEY_VALID_AFTER, "string"),
                     field(KEY_VALID_BEFORE, "string"), field(KEY_NONCE, "string")>>
        version == field(KEY_X402_VERSION, "number")
    IN  IF \/ \E i \in 1..Len(tokens) : tokens[i].kind = "error"
           \/ ~version.ok
           \/ \E i \in 1..Len(strings) : ~strings[i].ok
           \/ ~field(KEY_PAYLOAD, "{").ok
           \/ ~field(KEY_AUTHORIZATION, "{").ok
        THEN PayloadErr
        ELSE PayloadOk(
                 [x402_version |-> DigitsValue(version.value),
                  scheme |-> strings[1].value, network |-> strings[2].value,
                  payload |->
                      [signature |-> strings[3].value,
                       authorization |->
                           [from |-> strings[4].value, to |-> strings[5].value,
                            value |-> strings[6].value,
                            valid_after |-> strings[7].value,
                            valid_before |-> strings[8].value,
                            nonce |-> strings[9].value]]])

\* The alphabet of general_purpose::STANDARD, and its padding.
Base64Chars ==
    <<"A", "B", "C", "D", "E", "F", "G", "H", "I", "J", "K", "L", "M",
      "N", "O", "P", "Q", "R", "S", "T", "U", "V", "W", "X", "Y", "Z",
      "a", "b", "c", "d", "e", "f", "g", "h", "i", "j", "k", "l", "m",
      "n", "o", "p", "q", "r", "s", "t", "u", "v", "w", "x", "y", "z",
      "0", "1", "2", "3", "4", "5", "6", "7", "8", "9", "+", "/">>

Base64Value(c) == (CHOOSE i \in 1..64 : Base64Chars[i] = c) - 1

IsBase64Char(c) == \E i \in 1..64 : Base64Chars[i] = c

\* STANDARD.encode: three bytes to four characters, "=" for the missing ones.
base64_encode(bytes) ==
    LET at(i) == IF i <= Len(bytes) THEN bytes[i] ELSE 0
        group(g) == at(3 * g - 2) * 65536 + at(3 * g - 1) * 256 + at(3 * g)
    IN  [k \in 1..(4 * ((Len(bytes) + 2) \div 3)) |->
            LET g == (k + 3) \div 4
                j == (k - 1) % 4
            IN  IF j >= 2 /\ 3 * g - 3 + j > Len(bytes) THEN "="
                ELSE Base64Chars[((group(g) \div (64 ^ (3 - j))) % 64) + 1]]

\* STANDARD.decode: whole groups of four, padding only at the end, no
\* character outside the alphabet and no bits set beyond the last byte.
base64_decode(chars) ==
    LET n == Len(chars)
        pad == IF n >= 2 /\ chars[n] = "=" /\ chars[n - 1] = "=" THEN 2
               ELSE IF n >= 1 /\ chars[n] = "=" THEN 1 ELSE 0
        sextet(k) == IF k > n - pad THEN 0 ELSE Base64Value(chars[k])
        group(g) == sextet(4 * g - 3) * 262144 + sextet(4 * g - 2) * 4096
                    + sextet(4 * g - 1) * 64 + sextet(4 * g)
        size == 3 * (n \div 4) - pad
    IN  IF \/ n % 4 # 0
           \/ \E k \in 1..(n - pad) : ~IsBase64Char(chars[k])
        THEN ParseErr
        ELSE IF pad > 0 /\ group(n \div 4) % (256 ^ pad) # 0 THEN ParseErr
        ELSE ParseOk([i \in 1..size |->
                         (group((i + 2) \div 3) \div (256 ^ (2 - ((i - 1) % 3)))) % 256])

\* PaymentPayload::to_base64
to_base64(p) ==
    LET json == serde_json_to_string(p)
    IN  base64_encode([i \in 1..Len(json) |-> AsciiCode(json[i])])

\* PaymentPayload::from_base64
from_base64(encoded) ==
    LET decoded == base64_decode(encoded)
    IN  IF ~decoded.ok THEN PayloadErr
        ELSE serde_json_from_text(
                 [i \in 1..Len(decoded.value) |-> AsciiChars[decoded.value[i] - 31]])

(***************************************************************************)
(* FacilitatorClient (facilitator/mod.rs): the requests it builds, the     *)
(* authentication headers it adds, and what it returns for each answer of  *)
(* the facilitator.                                                        *)
(***************************************************************************)
\* str::to_ascii_lowercase, as HeaderName::from_bytes normalises a name.
to_ascii_lowercase(s) ==
    [i \in 1..Len(s) |->
        IF AsciiCode(s[i]) \in 65..90 THEN AsciiChars[AsciiCode(s[i]) + 32 - 31]
        ELSE s[i]]

\* The characters a header name may hold: visible ASCII but the separators.
IsHeaderNameChar(c) ==
    c \notin {" ", QUOTE, BACKSLASH, "(", ")", ",", "/", ":", ";", "<", "=", ">",
              "?", "@", "[", "]", "{", "}"}

IsHeaderName(name) ==
    Len(name) > 0 /\ \A i \in 1..Len(name) : IsHeaderNameChar(name[i])

Header(name, value) == <<name, value>>

AUTHORIZATION == <<"A", "u", "t", "h", "o", "r", "i", "z", "a", "t",
                      "i", "o", "n">>
CORRELATION_CONTEXT == <<"C", "o", "r", "r", "e", "l", "a", "t", "i", "o",
                      "n", "-", "C", "o", "n", "t", "e", "x", "t">>
X_API_KEY == <<"x", "-", "a", "p", "i", "-", "k", "e", "y">>
BAD_HEADER_NAME == <<"B", "a", "d", " ", "N", "a", "m", "e">>
CONTENT_TYPE == <<"c", "o", "n", "t", "e", "n", "t", "-", "t", "y",
                      "p", "e">>

\* Option<AuthHeadersFnArc>: no factory, or what the factory returns when it
\* is called: an error, or header maps under keys.
NoAuthConfig == [present |-> FALSE, ok |-> FALSE, headers |-> <<>>]
FailingAuthConfig == [present |-> TRUE, ok |-> FALSE, headers |-> <<>>]
AuthConfig(headers) == [present |-> TRUE, ok |-> TRUE, headers |-> headers]

\* Mutant: the headers of every key are added.
headers_get_all(headers, key) ==
    [found |-> DOMAIN headers # {},
     value |-> UNION { headers[k] : k \in DOMAIN headers }]

\* HashMap::get(key)
headers_get(headers, key) ==
    IF key \in DOMAIN headers THEN [found |-> TRUE, value |-> headers[key]]
    ELSE [found |-> FALSE, value |-> {}]

\* A reqwest RequestBuilder: the request, and the error of a header that
\* could not be converted.
RequestBuilder(method, path) ==
    [method |-> method, path |-> path, query |-> <<>>, json |-> <<>>,
     headers |-> {}, error |-> FALSE]

\* RequestBuilder::json
RequestBuilder_json(request, body) ==
    [request EXCEPT !.json = <<body>>,
                    !.headers = @ \cup {Header(CONTENT_TYPE, "application/json")}]

\* RequestBuilder::header for every entry of a header map.
RequestBuilder_headers(request, map) ==
    [request EXCEPT
        !.headers = @ \cup { Header(to_ascii_lowercase(h[1]), h[2]) :
                                 h \in { g \in map : IsHeaderName(g[1]) } },
        !.error = @ \/ \E h \in map : ~IsHeaderName(h[1])]

ClientOk(value) == [ok |-> TRUE, value |-> value, error |-> NONE]
ClientErr(error) == [ok |-> FALSE, value |-> NONE, error |-> error]

\* What a call leaves behind: the requests that went out, and its result.
Outcome(sent, result) == [sent |-> sent, result |-> result]

\* The answers of the facilitator: none (the connection failed), or a status
\* and a body that is or is not the JSON of the response type.
Answer(status, body) == [status |-> status, body |-> body]
NoAnswer == Answer(0, NONE)
Answers ==
    {NoAnswer, Answer(200, "response"), Answer(201, "response"),
     Answer(200, "not_json"), Answer(500, "response")}

status_is_success(status) == status >= 200 /\ status < 300

\* "Add authentication headers if available", request.send().await? and the
\* reading of the response, as verify, settle, supported and list do them.
send_with_auth(client, key, request, answer, failure) ==
    LET config == client.auth_config
        found == headers_get(config.headers, key)
        with_auth == IF config.present /\ found.found
                     THEN RequestBuilder_headers(request, found.value)
                     ELSE request
    IN  IF config.present /\ ~config.ok THEN Outcome(<<>>, ClientErr("auth_headers"))
        ELSE IF with_auth.error THEN Outcome(<<>>, ClientErr("request"))
        ELSE IF answer = NoAnswer THEN Outcome(<<with_auth>>, ClientErr("http"))
        ELSE IF ~status_is_success(answer.status)
             THEN Outcome(<<with_auth>>, ClientErr(failure))
        ELSE IF answer.body = "not_json" THEN Outcome(<<with_auth>>, ClientErr("json"))
        ELSE Outcome(<<with_auth>>, ClientOk(answer.body))

\* FacilitatorClient::verify
FacilitatorClient_verify(client, payment_payload, payment_requirements, answer) ==
    send_with_auth(client, "verify",
                   RequestBuilder_json(RequestBuilder("POST", "/verify"),
                       FacilitatorClient_request_body(payment_payload,
                                                      payment_requirements)),
                   answer, "facilitator_error: Verification failed")

\* FacilitatorClient::settle
FacilitatorClient_settle(client, payment_payload, payment_requirements, answer) ==
    send_with_auth(client, "settle",
                   RequestBuilder_json(RequestBuilder("POST", "/settle"),
                       FacilitatorClient_request_body(payment_payload,
                                                      payment_requirements)),
                   answer, "facilitator_error: Settlement failed")

\* FacilitatorClient::supported
FacilitatorClient_supported(client, answer) ==
    send_with_auth(client, "supported", RequestBuilder("GET", "/supported"),
                   answer, "facilitator_error: Failed to get supported kinds")

\* DiscoveryFilters: each field is given or not.
NoFilters == [given |-> FALSE, resource_type |-> NONE, limit |-> NONE, offset |-> NONE]
DiscoveryFilters(resource_type, limit, offset) ==
    [given |-> TRUE, resource_type |-> resource_type, limit |-> limit,
     offset |-> offset]

\* FacilitatorClient::list
FacilitatorClient_list(client, filters, answer) ==
    LET get == RequestBuilder("GET", "/discovery/resources")
        param(name, value) == IF value = NONE THEN <<>> ELSE <<<<name, value>>>>
        query == IF ~filters.given THEN <<>>
                 ELSE param("type", filters.resource_type)
                      \o param("limit", filters.limit)
                      \o param("offset", filters.offset)
    IN  send_with_auth(client, "list", [get EXCEPT !.query = query], answer,
                       "facilitator_error: Discovery failed")

\* Mutant: only the networks are compared.
FacilitatorClient_verify_with_network_only(client, payment_payload, payment_requirements, answer) ==
    IF payment_payload.network # payment_requirements.network
    THEN Outcome(<<>>, ClientErr("payment_verification_failed"))
    ELSE FacilitatorClient_verify(client, payment_payload, payment_requirements,
                                  answer)

\* FacilitatorClient::verify_with_network_validation
FacilitatorClient_verify_with_network_validation(client, payment_payload, payment_requirements, answer) ==
    IF payment_payload.network # payment_requirements.network
    THEN Outcome(<<>>, ClientErr("payment_verification_failed"))
    ELSE IF payment_payload.scheme # payment_requirements.scheme
    THEN Outcome(<<>>, ClientErr("payment_verification_failed"))
    ELSE FacilitatorClient_verify(client, payment_payload, payment_requirements,
                                  answer)

(***************************************************************************)
(* PaymentMiddleware (middleware/payment.rs, middleware/config.rs): the    *)
(* requirements it asks for, and how it answers a request.                 *)
(***************************************************************************)
\* rust_decimal::Decimal: an integer mantissa and the number of its digits
\* behind the point.
Decimal(mantissa, scale) == [mantissa |-> mantissa, scale |-> scale]

\* Decimal::normalize: trailing zeros behind the point are dropped.
RECURSIVE Decimal_normalize(_)
Decimal_normalize(d) ==
    IF d.scale > 0 /\ d.mantissa % 10 = 0
    THEN Decimal_normalize(Decimal(d.mantissa \div 10, d.scale - 1))
    ELSE d

\* Decimal::to_string: a sign when the number is negative, the integer part,
\* and behind a point the fraction in as many digits as the scale says.
Decimal_to_string(d) ==
    LET magnitude == IF d.mantissa < 0 THEN 0 - d.mantissa ELSE d.mantissa
        sign == IF d.mantissa < 0 THEN <<"-">> ELSE <<>>
        fraction == ToDec(magnitude % (10 ^ d.scale))
    IN  IF d.scale = 0 THEN sign \o ToDec(magnitude)
        ELSE sign \o ToDec(magnitude \div (10 ^ d.scale)) \o <<".">>
             \o [i \in 1..(d.scale - Len(fraction)) |-> "0"] \o fraction

\* networks::get_usdc_address
get_usdc_address(network) ==
    CASE network = "base" -> USDC_BASE
      [] network = "base-sepolia" -> USDC_BASE_SEPOLIA
      [] network = "avalanche" -> USDC_AVALANCHE
      [] network = "avalanche-fuji" -> USDC_AVALANCHE_FUJI
      [] OTHER -> <<>>

\* PaymentMiddlewareConfig::create_payment_requirements
create_payment_requirements(config, request_uri) ==
    LET network == IF config.testnet THEN "base-sepolia" ELSE "base"
        resource == IF config.resource # NONE THEN config.resource
                    ELSE IF config.resource_root_url # NONE
                         THEN <<config.resource_root_url, request_uri>>
                    ELSE request_uri
        max_amount_required ==
            Decimal_to_string(Decimal_normalize(
                Decimal(config.amount.mantissa * 1000000, config.amount.scale)))
    IN  [scheme |-> "exact", network |-> network,
         max_amount_required |-> max_amount_required,
         pay_to |-> to_lowercase(config.pay_to),
         asset |-> get_usdc_address(network),
         resource |-> resource,
         description |-> IF config.description # NONE THEN config.description
                         ELSE "Payment required",
         extra |-> [name |-> IF config.testnet THEN USDC ELSE USD_COIN,
                    version |-> <<"2">>]]

\* str::contains
contains(s, pattern) ==
    \E i \in 0..(Len(s) - Len(pattern)) : SubSeq(s, i + 1, i + Len(pattern)) = pattern

TEXT_HTML == <<"t", "e", "x", "t", "/", "h", "t", "m", "l">>
MOZILLA == <<"M", "o", "z", "i", "l", "l", "a">>

PAYMENT_REQUIRED == 402
OK == 200

\* An axum response: status, Content-Type, body, and the X-PAYMENT-RESPONSE
\* header when there is one.
Response(status, content_type, body) ==
    [status |-> status, content_type |-> content_type, body |-> body,
     x_payment_response |-> NONE]

\* The bodies of the responses: the JSON of a PaymentRequirementsResponse,
\* the page generate_paywall_html makes of its arguments, a custom page, and
\* what the protected handler wrote.
JsonBody(error, accepts) ==
    [kind |-> "json", error |-> error, accepts |-> accepts, page |-> NONE]
PaywallBody(error, accepts) ==
    [kind |-> "paywall", error |-> error, accepts |-> accepts, page |-> NONE]
CustomBody(html) ==
    [kind |-> "custom_html", error |-> NONE, accepts |-> <<>>, page |-> html]
HandlerBody(page) ==
    [kind |-> "handler", error |-> NONE, accepts |-> <<>>, page |-> page]

\* PaymentMiddleware::create_payment_required_response.  Json(..).into_response()
\* is a response of status 200 OK.
create_payment_required_response(middleware, error, payment_requirements, is_web_browser) ==
    IF is_web_browser
    THEN Response(PAYMENT_REQUIRED, "text/html",
                  IF middleware.config.custom_paywall_html # NONE
                  THEN CustomBody(middleware.config.custom_paywall_html)
                  ELSE PaywallBody(error, <<payment_requirements>>))
    ELSE Response(OK, "application/json", JsonBody(error, <<payment_requirements>>))

\* FacilitatorClient::new, of a configuration that is valid.
FacilitatorClient(auth_config) == [url |-> "facilitator", auth_config |-> auth_config]

\* FacilitatorConfig::validate, on which FacilitatorClient::new depends.
FacilitatorConfig_validate(facilitator_config) ==
    facilitator_config.url \in {"http://", "https://"}

\* What process_payment leaves behind: its PaymentResult or error, the
\* response, and the calls it made, in their order.
Processed(result, response, events) ==
    [result |-> result, response |-> response, events |-> events]

NotAnswered == Response(0, NONE, HandlerBody(NONE))

\* The bodies of the facilitator's answers to verify and to settle.
IS_VALID_TRUE == "isValid:true"
IS_VALID_FALSE == "isValid:false"
SUCCESS_TRUE == "success:true"
SUCCESS_FALSE == "success:false"

\* PaymentMiddleware::process_payment
process_payment(middleware, request, handler_response, verify_answer, settle_answer) ==
    LET is_web_browser == /\ contains(request.accept, TEXT_HTML)
                          /\ contains(request.user_agent, MOZILLA)
        payment_requirements ==
            create_payment_requirements(middleware.config, request.uri)
        \* headers().get("X-PAYMENT").and_then(|v| v.to_str().ok())
        has_payment_header == request.x_payment.present /\ request.x_payment.to_str_ok
        payment_payload == from_base64(request.x_payment.value)
        facilitator ==
            IF middleware.facilitator.present THEN middleware.facilitator.client
            ELSE FacilitatorClient(middleware.config.facilitator_config.create_auth_headers)
        verified == FacilitatorClient_verify(facilitator, payment_payload.value,
                                             payment_requirements, verify_answer)
        settled == FacilitatorClient_settle(facilitator, payment_payload.value,
                                            payment_requirements, settle_answer)
        verify_events == [i \in 1..Len(verified.sent) |-> "verify"]
        settle_events == [i \in 1..Len(settled.sent) |-> "settle"]
    IN  IF ~has_payment_header
        THEN Processed("PaymentRequired",
                 create_payment_required_response(middleware,
                     "X-PAYMENT header is required", payment_requirements,
                     is_web_browser),
                 <<>>)
        ELSE IF ~payment_payload.ok
        THEN Processed("Err: invalid_payment_payload", NotAnswered, <<>>)
        ELSE IF /\ ~middleware.facilitator.present
                /\ ~FacilitatorConfig_validate(middleware.config.facilitator_config)
        THEN Processed("Err: config", NotAnswered, <<>>)
        ELSE IF ~verified.result.ok
        THEN Processed("Err: facilitator_error", NotAnswered, verify_events)
        ELSE IF verified.result.value # IS_VALID_TRUE
        THEN Processed("VerificationFailed",
                 create_payment_required_response(middleware,
                     "Payment verification failed", payment_requirements,
                     is_web_browser),
                 verify_events)
        ELSE IF ~settled.result.ok
        THEN Processed("Err: facilitator_error", NotAnswered,
                       verify_events \o <<"handler">> \o settle_events)
        ELSE Processed("Success",
                 [handler_response EXCEPT !.x_payment_response = settled.result.value],
                 verify_events \o <<"handler">> \o settle_events)

\* The client a PaymentMiddleware method works with: its own, or one made of
\* the configuration; FacilitatorClient::new fails when validate does.
facilitator_of(middleware) ==
    IF middleware.facilitator.present THEN ClientOk(middleware.facilitator.client)
    ELSE IF ~FacilitatorConfig_validate(middleware.config.facilitator_config)
         THEN ClientErr("config")
    ELSE ClientOk(FacilitatorClient(middleware.config.facilitator_config.create_auth_headers))

\* What PaymentMiddleware::verify returns, and the requests it sent.
Verified(sent, value) == [sent |-> sent, value |-> value]

\* Mutant: a facilitator that cannot be asked counts as agreeing.
PaymentMiddleware_verify_open(middleware, payment_payload, verify_answer) ==
    LET facilitator == facilitator_of(middleware)
        response == FacilitatorClient_verify(facilitator.value, payment_payload,
                        create_payment_requirements(middleware.config, "/"),
                        verify_answer)
    IN  IF ~facilitator.ok THEN Verified(<<>>, FALSE)
        ELSE IF ~response.result.ok THEN Verified(response.sent, TRUE)
        ELSE Verified(response.sent, response.result.value = IS_VALID_TRUE)

\* PaymentMiddleware::verify
PaymentMiddleware_verify(middleware, payment_payload, verify_answer) ==
    LET facilitator == facilitator_of(middleware)
        response == FacilitatorClient_verify(facilitator.value, payment_payload,
                        create_payment_requirements(middleware.config, "/"),
                        verify_answer)
    IN  IF ~facilitator.ok THEN Verified(<<>>, FALSE)
        ELSE IF ~response.result.ok THEN Verified(response.sent, FALSE)
        ELSE Verified(response.sent, response.result.value = IS_VALID_TRUE)

\* PaymentMiddleware::verify_with_requirements
PaymentMiddleware_verify_with_requirements(middleware, payment_payload, requirements, verify_answer) ==
    LET facilitator == facilitator_of(middleware)
        response == FacilitatorClient_verify(facilitator.value, payment_payload,
                                             requirements, verify_answer)
    IN  IF ~facilitator.ok THEN Outcome(<<>>, facilitator)
        ELSE IF ~response.result.ok THEN response
        ELSE Outcome(response.sent, ClientOk(response.result.value = IS_VALID_TRUE))

\* PaymentMiddleware::settle_with_requirements
PaymentMiddleware_settle_with_requirements(middleware, payment_payload, requirements, settle_answer) ==
    LET facilitator == facilitator_of(middleware)
    IN  IF ~facilitator.ok THEN Outcome(<<>>, facilitator)
        ELSE FacilitatorClient_settle(facilitator.value, payment_payload,
                                      requirements, settle_answer)

\* What the inner service's future resolves to: a response or an error.
ServiceOk(response) == [ok |-> TRUE, response |-> response]
ServiceErr == [ok |-> FALSE, response |-> NotAnswered]

\* PaymentService::call (middleware/service.rs).  The inner service is any
\* tower::Service: one that does its work when its future is polled ("lazy")
\* or one that does it in call and returns a future that is ready ("eager").
\* self.inner.call(req) is the first thing that happens to the request.
PaymentService_call(middleware, inner, request, handler_result, verify_answer, settle_answer) ==
    LET has_payment_header == request.x_payment.present /\ request.x_payment.to_str_ok
        called == IF inner = "eager" THEN <<"handler">> ELSE <<>>
        awaited == IF inner = "lazy" THEN <<"handler">> ELSE <<>>
        payment_payload == from_base64(request.x_payment.value)
        requirements == create_payment_requirements(middleware.config, request.uri)
        verified == PaymentMiddleware_verify_with_requirements(
                        middleware, payment_payload.value, requirements, verify_answer)
        settled == PaymentMiddleware_settle_with_requirements(
                        middleware, payment_payload.value, requirements, settle_answer)
        verify_events == [i \in 1..Len(verified.sent) |-> "verify"]
        settle_events == [i \in 1..Len(settled.sent) |-> "settle"]
    IN  IF ~has_payment_header
        THEN Processed("Err: payment_verification_failed", NotAnswered, called)
        ELSE IF ~payment_payload.ok
        THEN Processed("Err: invalid_payment_payload", NotAnswered, called)
        ELSE IF ~verified.result.ok
        THEN Processed("Err: verify", NotAnswered, called \o verify_events)
        ELSE IF ~verified.result.value
        THEN Processed("Err: payment_verification_failed", NotAnswered,
                       called \o verify_events)
        ELSE IF ~handler_result.ok
        THEN Processed("Err: inner", NotAnswered, called \o verify_events \o awaited)
        ELSE Processed("Ok", handler_result.response,
                       called \o verify_events \o awaited \o settle_events)

(***************************************************************************)
(* The library functions applied to inputs: each step is one call, and     *)
(* `calls` holds the call that returned last.                              *)
(***************************************************************************)
LibCall(op, input, output) == [op |-> op, input |-> input, output |-> output]

NetworkTags == {"base", "base-sepolia", "avalanche", "avalanche-fuji", "ethereum"}

\* 20-byte addresses and 32-byte nonces, as bytes.
ADDRESS_A == Address_from_str(USDC_BASE).value
ADDRESS_B == Address_from_str(USDC_BASE_SEPOLIA).value
NONCE_BYTES_1 == hex_decode(SubSeq(NONCE_1, 3, Len(NONCE_1))).value
NONCE_BYTES_2 == hex_decode(SubSeq(NONCE_2, 3, Len(NONCE_2))).value

\* Amounts whose hexadecimal form has one, two and four digits.
Amounts == {10, 16, 255, 4096}

DomainInputs ==
    { Domain(name, <<"2">>, chain_id, contract) :
          name \in {USD_COIN, USDC}, chain_id \in {8453, 84532, 43114},
          contract \in {ADDRESS_A, ADDRESS_B} }

\* The validity times have an even number of hexadecimal digits, as the
\* timestamps of this century have.
MessageInputs ==
    { transfer_message(from, ADDRESS_B, value, 4096, 8192, nonce) :
          from \in {ADDRESS_A, ADDRESS_B}, value \in Amounts,
          nonce \in {NONCE_BYTES_1, NONCE_BYTES_2} }

DIGEST_1 == keccak256(Bytes(<<1>>))
DIGEST_2 == keccak256(Bytes(<<2>>))

\* The last byte v of a signature, and the bytes after r and s: none, v, and
\* v with one byte more.
RecoveryBytes == {0, 1, 2, 3, 26, 27, 28, 29, 255}

SignatureTails ==
    {<<>>} \cup { <<v>> : v \in RecoveryBytes } \cup { <<v, 0>> : v \in RecoveryBytes }

SignatureInputs ==
    { SignatureString(hex, signer, DIGEST_1, recovery_id, tail) :
          hex \in BOOLEAN, signer \in {PAYER, OTHER_PAYER},
          recovery_id \in {0, 1}, tail \in SignatureTails }

\* Payloads whose strings are empty, plain, and hold a quote and a backslash;
\* the signatures make the JSON text end in each of the three paddings.
SCHEME_EXACT == <<"e", "x", "a", "c", "t">>
SCHEME_QUOTED == <<"e", "x", QUOTE, "a", BACKSLASH, QUOTE>>

PayloadInputs ==
    { [x402_version |-> version, scheme |-> scheme, network |-> network,
       payload |->
           [signature |-> signature,
            authorization |->
                [from |-> <<"0", "x", "a">>, to |-> <<>>, value |-> value,
                 valid_after |-> ToDec(Now0 - 1), valid_before |-> ToDec(Now0 + 1),
                 nonce |-> NONCE_SHORT]]] :
          version \in {0, 1, 42},
          scheme \in {SCHEME_EXACT, SCHEME_QUOTED},
          network \in {<<"b", "a", "s", "e">>, <<":", ",", "{", " ", "}">>},
          signature \in {<<>>, <<"0">>, <<"0", "x">>, <<BACKSLASH>>},
          value \in {ToDec(10), KEY_VALUE} }

InitLib ==
    /\ backend = "memory"
    /\ now = Now0
    /\ nonces = <<>>
    /\ redis = <<>>
    /\ reqs = [r \in Requests |-> Idle]
    /\ marked_at = [n \in NonceStrings |-> -1]
    /\ calls = <<>>
    /\ lock = Unlocked

\* A library call touches nothing of the server.
ServerUnchanged == UNCHANGED <<backend, now, nonces, redis, reqs, marked_at, lock>>

CallHashDomain ==
    \E domain \in DomainInputs :
        /\ calls' = <<LibCall("hash_domain", domain, hash_domain(domain))>>
        /\ ServerUnchanged

CallHashStruct ==
    \E message \in MessageInputs :
        /\ calls' = <<LibCall("hash_struct", message,
                              hash_struct(TRANSFER_WITH_AUTHORIZATION, message))>>
        /\ ServerUnchanged

CallPaymentDomain ==
    \E network \in NetworkTags :
        /\ calls' = <<LibCall("verify_payment_payload_domain", network,
                              verify_payment_payload_domain(network))>>
        /\ ServerUnchanged

CallVerifySignature ==
    \E signature \in SignatureInputs, message_hash \in {DIGEST_1, DIGEST_2} :
        /\ calls' = <<LibCall("verify_eip712_signature",
                              [signature |-> signature, message_hash |-> message_hash,
                               expected_address |-> PAYER],
                              verify_eip712_signature(signature, message_hash, PAYER))>>
        /\ ServerUnchanged

\* PaymentPayload::from_base64(&payload.to_base64()) for every payload.
Base64RoundTrips ==
    { LibCall("from_base64", [payload |-> p, encoded |-> to_base64(p)],
              from_base64(to_base64(p))) : p \in PayloadInputs }

CallBase64RoundTrip ==
    \E call \in Base64RoundTrips :
        /\ calls' = <<call>>
        /\ ServerUnchanged

NextLib ==
    \/ CallBase64RoundTrip
    \/ CallHashDomain
    \/ CallHashStruct
    \/ CallPaymentDomain
    \/ CallVerifySignature

SpecLib == InitLib /\ [][NextLib]_vars

(***************************************************************************)
(* A program that uses a FacilitatorClient: each step is one call of one   *)
(* of its operations, answered by the facilitator in one of the ways it    *)
(* can answer; `calls` holds the call that returned last.                  *)
(***************************************************************************)
\* The header maps of the factories: one map under every key, the two
\* headers of the reference integration under verify alone, maps under a key
\* no operation asks for, and a name that is no header name.
HeadersForAll ==
    [key \in {"verify", "settle", "supported", "list"} |->
        {Header(AUTHORIZATION, key)}]

HeadersForVerify ==
    [key \in {"verify"} |->
        {Header(AUTHORIZATION, "Bearer test-token"),
         Header(CORRELATION_CONTEXT, "test=correlation")}]

HeadersForOthers ==
    [key \in {"discovery", "settle"} |->
        IF key = "settle" THEN {} ELSE {Header(X_API_KEY, key)}]

HeadersWithBadName ==
    [key \in {"verify", "list"} |->
        IF key = "verify" THEN {Header(BAD_HEADER_NAME, key)}
        ELSE {Header(X_API_KEY, key)}]

Clients ==
    { FacilitatorClient(auth_config) :
          auth_config \in {NoAuthConfig, FailingAuthConfig} \cup
                          { AuthConfig(headers) :
                                headers \in {HeadersForAll, HeadersForVerify,
                                             HeadersForOthers, HeadersWithBadName} } }

ClientPayloads ==
    { PaymentPayload(scheme, network, PAYER,
                     Authorization(PAYER, PAY_TO_LOWER, ToDec(10), WindowOpen, NONCE_1)) :
          scheme \in {"exact", "upto"}, network \in {"base", "base-sepolia"} }
    \ {PaymentPayload("upto", "base", PAYER,
                      Authorization(PAYER, PAY_TO_LOWER, ToDec(10), WindowOpen, NONCE_1))}

ClientRequirements ==
    {PaymentRequirements, [PaymentRequirements EXCEPT !.network = "base"]}

FilterInputs ==
    {NoFilters, DiscoveryFilters("http", NONE, NONE), DiscoveryFilters(NONE, "10", "20")}

ClientCall(op, client, input, reply, outcome) ==
    [op |-> op, client |-> client, input |-> input, answer |-> reply,
     sent |-> outcome.sent, result |-> outcome.result]

PaymentInput(payment_payload, payment_requirements) ==
    [payment_payload |-> payment_payload,
     payment_requirements |-> payment_requirements]

CallVerify ==
    \E client \in Clients, p \in ClientPayloads, r \in ClientRequirements,
       answer \in Answers :
        /\ calls' = <<ClientCall("verify", client, PaymentInput(p, r), answer,
                                 FacilitatorClient_verify(client, p, r, answer))>>
        /\ ServerUnchanged

CallSettle ==
    \E client \in Clients, p \in ClientPayloads, r \in ClientRequirements,
       answer \in Answers :
        /\ calls' = <<ClientCall("settle", client, PaymentInput(p, r), answer,
                                 FacilitatorClient_settle(client, p, r, answer))>>
        /\ ServerUnchanged

CallSupported ==
    \E client \in Clients, answer \in Answers :
        /\ calls' = <<ClientCall("supported", client, NONE, answer,
                                 FacilitatorClient_supported(client, answer))>>
        /\ ServerUnchanged

CallList ==
    \E client \in Clients, filters \in FilterInputs, answer \in Answers :
        /\ calls' = <<ClientCall("list", client, filters, answer,
                                 FacilitatorClient_list(client, filters, answer))>>
        /\ ServerUnchanged

CallVerifyWithNetworkValidation ==
    \E client \in Clients, p \in ClientPayloads, r \in ClientRequirements,
       answer \in Answers :
        /\ calls' = <<ClientCall("verify_with_network_validation", client,
                                 PaymentInput(p, r), answer,
                                 FacilitatorClient_verify_with_network_validation(
                                     client, p, r, answer))>>
        /\ ServerUnchanged

NextClient ==
    \/ CallVerify
    \/ CallSettle
    \/ CallSupported
    \/ CallList
    \/ CallVerifyWithNetworkValidation

SpecClient == InitLib /\ [][NextClient]_vars

(***************************************************************************)
(* A server behind the payment middleware: a behaviour is one request      *)
(* that payment_middleware, PaymentService or PaymentMiddleware::verify    *)
(* handles, with the facilitator answering verify and settle in one of the *)
(* ways it can; `calls` holds the request and what became of it.           *)
(***************************************************************************)
PaymentMiddlewareConfig(amount, testnet, custom_paywall_html, facilitator_url) ==
    [amount |-> amount, pay_to |-> PAY_TO_CHECKSUM, testnet |-> testnet,
     description |-> NONE, resource |-> NONE, resource_root_url |-> NONE,
     custom_paywall_html |-> custom_paywall_html,
     facilitator_config |-> [url |-> facilitator_url,
                             create_auth_headers |-> NoAuthConfig]]

PaymentMiddleware(config, facilitator) ==
    [config |-> config, facilitator |-> facilitator]

NoFacilitator == [present |-> FALSE, client |-> FacilitatorClient(NoAuthConfig)]
WithFacilitator == [present |-> TRUE, client |-> FacilitatorClient(NoAuthConfig)]

\* Middlewares on mainnet hold a client (with_facilitator); those on testnet
\* make one of the configuration for each request, and the last holds a URL
\* that validate refuses.
Middlewares ==
    { PaymentMiddleware(
          PaymentMiddlewareConfig(Decimal(1, 4), testnet, html, "https://"),
          IF testnet THEN NoFacilitator ELSE WithFacilitator) :
          testnet \in BOOLEAN, html \in {NONE, "custom paywall"} }
    \cup {PaymentMiddleware(
              PaymentMiddlewareConfig(Decimal(25, 1), TRUE, NONE, "ftp://"),
              NoFacilitator)}

\* The payload a paying client encodes.
PayingPayload ==
    [x402_version |-> 1, scheme |-> SCHEME_EXACT, network |-> <<"b", "a", "s", "e">>,
     payload |->
         [signature |-> <<"0", "x">>,
          authorization |->
              [from |-> <<"0", "x", "a">>, to |-> PAY_TO_LOWER, value |-> ToDec(100),
               valid_after |-> ToDec(Now0 - 1), valid_before |-> ToDec(Now0 + 1),
               nonce |-> NONCE_SHORT]]]

XPayment(present, to_str_ok, value) ==
    [present |-> present, to_str_ok |-> to_str_ok, value |-> value]

\* The X-PAYMENT header of a request: none, bytes that are no visible ASCII,
\* text that is no payload, and the payload of a paying client.
XPayments ==
    {XPayment(FALSE, FALSE, <<>>), XPayment(TRUE, FALSE, <<>>),
     XPayment(TRUE, TRUE, <<"!">>),
     XPayment(TRUE, TRUE, to_base64(PayingPayload))}

APPLICATION_JSON == <<"a", "p", "p", "l", "i", "c", "a", "t", "i", "o",
                      "n", "/", "j", "s", "o", "n">>
MOZILLA_5 == <<"M", "o", "z", "i", "l", "l", "a", "/", "5", ".",
                      "0">>
CURL == <<"c", "u", "r", "l", "/", "8">>

\* A browser, a browser's script that asks for JSON, and a tool that accepts
\* pages.
HeaderInputs ==
    {<<TEXT_HTML, MOZILLA_5>>, <<APPLICATION_JSON, MOZILLA_5>>, <<TEXT_HTML, CURL>>}

MiddlewareRequests ==
    { [uri |-> "/protected", x_payment |-> x, accept |-> h[1], user_agent |-> h[2]] :
          x \in XPayments, h \in HeaderInputs }

\* What the protected handler answers when it is run.
HandlerResponses ==
    {Response(OK, "text/plain", HandlerBody("content")),
     Response(500, "text/plain", HandlerBody("failure"))}

VerifyAnswers ==
    {NoAnswer, Answer(200, IS_VALID_TRUE), Answer(200, IS_VALID_FALSE),
     Answer(500, IS_VALID_TRUE)}

SettleAnswers ==
    {NoAnswer, Answer(200, SUCCESS_TRUE), Answer(200, SUCCESS_FALSE)}

ProcessPaymentCalls ==
    { LibCall("process_payment",
              [middleware |-> m, request |-> r, handler_response |-> h,
               verify_answer |-> v, settle_answer |-> t],
              process_payment(m, r, h, v, t)) :
          m \in Middlewares, r \in MiddlewareRequests, h \in HandlerResponses,
          v \in VerifyAnswers, t \in SettleAnswers }

CallProcessPayment ==
    \E call \in ProcessPaymentCalls :
        /\ calls = <<>>
        /\ calls' = <<call>>
        /\ ServerUnchanged

\* The inner service's answers, and the two kinds of inner service.
ServiceResults == {ServiceOk(h) : h \in HandlerResponses} \cup {ServiceErr}

InnerServices == {"lazy", "eager"}

\* PaymentService reads no header but X-PAYMENT.
ServiceRequests ==
    { [uri |-> "/protected", x_payment |-> x, accept |-> <<>>, user_agent |-> <<>>] :
          x \in XPayments }

PaymentServiceCalls ==
    { LibCall("PaymentService::call",
              [middleware |-> m, inner |-> s, request |-> r, handler_result |-> h,
               verify_answer |-> v, settle_answer |-> t],
              PaymentService_call(m, s, r, h, v, t)) :
          m \in Middlewares, s \in InnerServices, r \in ServiceRequests,
          h \in ServiceResults, v \in VerifyAnswers, t \in SettleAnswers }

CallPaymentService ==
    \E call \in PaymentServiceCalls :
        /\ calls = <<>>
        /\ calls' = <<call>>
        /\ ServerUnchanged

MiddlewareVerifyCalls ==
    { LibCall("PaymentMiddleware::verify",
              [middleware |-> m, payment_payload |-> PayingPayload, verify_answer |-> v],
              PaymentMiddleware_verify(m, PayingPayload, v)) :
          m \in Middlewares, v \in VerifyAnswers \cup Answers }

CallMiddlewareVerify ==
    \E call \in MiddlewareVerifyCalls :
        /\ calls = <<>>
        /\ calls' = <<call>>
        /\ ServerUnchanged

\* Amounts a configuration may hold: the 0.0001 of the tests, whole and zero
\* amounts, amounts finer than one atomic unit, and a negative amount.
AmountInputs ==
    {Decimal(1, 4), Decimal(1, 0), Decimal(0, 0), Decimal(25, 1), Decimal(10, 2),
     Decimal(1, 6), Decimal(1, 7), Decimal(15, 7), Decimal(-1, 2)}

CreateRequirementsCalls ==
    { LibCall("create_payment_requirements",
              [config |-> PaymentMiddlewareConfig(amount, testnet, NONE, "https://"),
               request_uri |-> "/test"],
              create_payment_requirements(
                  PaymentMiddlewareConfig(amount, testnet, NONE, "https://"), "/test")) :
          amount \in AmountInputs, testnet \in BOOLEAN }

CallCreatePaymentRequirements ==
    \E call \in CreateRequirementsCalls :
        /\ calls = <<>>
        /\ calls' = <<call>>
        /\ ServerUnchanged

NextMiddleware ==
    \/ CallProcessPayment
    \/ CallPaymentService
    \/ CallMiddlewareVerify
    \/ CallCreatePaymentRequirements

SpecMiddleware == InitLib /\ [][NextMiddleware]_vars

(***************************************************************************)
(* What the claims speak of.                                               *)
(***************************************************************************)
AuthOf(q) == q.request.payment_payload.payload.authorization

IsVerify(q) ==
    /\ q.pc = "done" /\ q.kind = "verify"
    /\ Json_from_request(q.request)
    /\ q.request.x402_version = X402_VERSION

\* The request was answered HTTP 200 with isValid:false and this reason.
IsInvalidFor(q, reason) ==
    /\ IsVerify(q)
    /\ q.status = 200
    /\ ~q.result.value.is_valid
    /\ q.result.value.invalid_reason = reason

IsSettled(q) ==
    q.pc = "done" /\ q.kind = "settle" /\ q.status = 200 /\ q.result.value.success

ValidBeforeOf(q) == parse_i64(AuthOf(q).valid_before).value

\* The signature recovers, over the digest for the requirements' network, to
\* authorization.from.
SignatureRecoversToFrom(body) ==
    verify_payment_payload(body.payment_payload.payload,
                           body.payment_payload.payload.authorization.from,
                           body.payment_requirements.network) = TRUE

\* The checks of /verify (replay, timing, amount, recipient, signature) pass
\* for this request body in the current state.
PassesVerification(body) ==
    /\ ~storage_has_nonce(body.payment_payload.payload.authorization.nonce)
    /\ policy_checks(body.payment_payload, body.payment_requirements, now) = Pending
    /\ SignatureRecoversToFrom(body)

(***************************************************************************)
(* C1: of the concurrent /verify requests that carry one nonce exactly one *)
(* returns isValid:true; no nonce is ever verified successfully twice.     *)
(* Stated for the in-memory store, which neither fails nor forgets, so     *)
(* that only the interleaving of has_nonce and mark_nonce can break it.    *)
(***************************************************************************)
C1_NoNonceVerifiedTwice ==
    backend = "memory" =>
        \A r1, r2 \in Requests :
            (r1 # r2 /\ IsValidVerify(reqs[r1]) /\ IsValidVerify(reqs[r2]))
                => NonceOf(reqs[r1]) # NonceOf(reqs[r2])

(***************************************************************************)
(* C2 as claimed: a verify that arrives after a verify of the same nonce   *)
(* has returned isValid:true, and whose store calls do not fail, returns   *)
(* nonce_already_used.                                                     *)
(***************************************************************************)
C2_LaterVerifyIsReplay ==
    \A r \in Requests :
        (IsVerify(reqs[r]) /\ reqs[r].after_valid /\ reqs[r].result.error # "storage")
            => IsInvalidFor(reqs[r], "nonce_already_used")

(***************************************************************************)
(* C2 as amended: a verify that arrives after a verify of the same nonce   *)
(* has returned isValid:true returns nonce_already_used when has_nonce     *)
(* answers it, provided the store is the in-memory one or, in the durable  *)
(* store, less than the 24 hour time to live has passed since the nonce    *)
(* was last marked.                                                        *)
(***************************************************************************)
C2_LaterVerifyIsReplayWithinTtl ==
    [][\A r \in Requests :
          ( /\ reqs[r].pc = "has_nonce"
            /\ reqs[r].after_valid
            /\ reqs'[r].pc # "has_nonce"
            /\ reqs'[r].result.error # "storage"
            /\ (backend = "redis" =>
                   now < marked_at[NonceOf(reqs[r])] + NONCE_TTL_SECONDS) )
          => IsInvalidFor(reqs'[r], "nonce_already_used")]_vars

C2_Witness ==
    \E r \in Requests :
        /\ reqs[r].after_valid
        /\ IsInvalidFor(reqs[r], "nonce_already_used")
        /\ AuthOf(reqs[r]).from = OTHER_PAYER
        /\ backend = "redis"

(***************************************************************************)
(* C3: /verify returns isValid:true only for a payload whose signature     *)
(* recovers to authorization.from.                                         *)
(***************************************************************************)
C3_ValidOnlyIfSignedByPayer ==
    \A r \in Requests :
        IsValidVerify(reqs[r]) => SignatureRecoversToFrom(reqs[r].request)

(***************************************************************************)
(* C4: /settle returns success:true only for a payload that passes the     *)
(* checks of /verify at settle time.                                       *)
(***************************************************************************)
C4_SettleOnlyIfVerifies ==
    [][\A r \in Requests :
          (reqs[r].pc = "idle" /\ IsSettled(reqs'[r]))
              => PassesVerification(reqs'[r].request)]_vars

(***************************************************************************)
(* C5: a /verify whose validBefore has passed is answered                  *)
(* authorization_expired whatever the nonce store holds.  The clock never  *)
(* runs backwards, so a validBefore before the start of the server is      *)
(* before every now.                                                       *)
(***************************************************************************)
C5_ExpiredIsAuthorizationExpired ==
    \A r \in Requests :
        ( /\ IsVerify(reqs[r])
          /\ ValidBeforeOf(reqs[r]) < Now0
          /\ reqs[r].result.error # "storage" )
        => IsInvalidFor(reqs[r], "authorization_expired")

(***************************************************************************)
(* C6: a /verify whose payload scheme or network differs from the          *)
(* requirements' is answered HTTP 4xx, never HTTP 200.  Requests that met  *)
(* a store failure are left aside: what is refuted is the HTTP 200 answer. *)
(***************************************************************************)
C6_EnvelopeMismatchIsProtocolError ==
    \A r \in Requests :
        ( /\ IsVerify(reqs[r])
          /\ reqs[r].result.error # "storage"
          /\ \/ reqs[r].request.payment_payload.scheme
                    # reqs[r].request.payment_requirements.scheme
             \/ reqs[r].request.payment_payload.network
                    # reqs[r].request.payment_requirements.network )
        => reqs[r].status \in 400..499

(***************************************************************************)
(* C7: authorization.to and requirements.payTo that differ only in letter  *)
(* case never produce recipient_mismatch.                                  *)
(***************************************************************************)
C7_RecipientComparedCaseInsensitively ==
    \A r \in Requests :
        ( /\ IsVerify(reqs[r])
          /\ to_lowercase(AuthOf(reqs[r]).to)
                 = to_lowercase(reqs[r].request.payment_requirements.pay_to) )
        => ~IsInvalidFor(reqs[r], "recipient_mismatch")

(***************************************************************************)
(* C8: a /verify in which a nonce-store operation fails is answered HTTP   *)
(* 500, and a /verify returns isValid:true only in the step in which       *)
(* mark_nonce has recorded its nonce.                                      *)
(***************************************************************************)
C8_StoreFailureIs500AndValidMeansMarked ==
    /\ [](\A r \in Requests :
            (reqs[r].pc = "done" /\ reqs[r].result.error = "storage")
                => reqs[r].status = 500)
    /\ [][\A r \in Requests :
            (~IsValidVerify(reqs[r]) /\ IsValidVerify(reqs'[r]))
                => /\ reqs[r].pc = "mark_nonce"
                   /\ marked_at'[NonceOf(reqs[r])] = now
                   /\ IF backend = "memory"
                      THEN InMemoryStorage_has_nonce(nonces', NonceOf(reqs[r]))
                      ELSE RedisStorage_has_nonce(redis', NonceOf(reqs[r]))]_vars

C8_Witness ==
    /\ backend = "redis"
    /\ \E r \in Requests :
          reqs[r].pc = "done" /\ reqs[r].kind = "verify"
              /\ reqs[r].result.error = "storage" /\ reqs[r].status = 500
    /\ \E r \in Requests : IsValidVerify(reqs[r])

(***************************************************************************)
(* C9: the nonce of a successful verification stays recorded at every time *)
(* up to the authorization's validBefore.                                  *)
(***************************************************************************)
C9_NonceRecordedUntilValidBefore ==
    \A r \in Requests :
        (IsValidVerify(reqs[r]) /\ now <= ValidBeforeOf(reqs[r]))
            => storage_has_nonce(NonceOf(reqs[r]))

(***************************************************************************)
(* C10: marking a nonce whose key exists in the durable store changes      *)
(* neither the stored value nor the time the key expires.                  *)
(***************************************************************************)
C10_FirstMarkFixesExpiry ==
    [][\A k \in DOMAIN redis : k \in DOMAIN redis' => redis'[k] = redis[k]]_vars

(***************************************************************************)
(* C11: every verify response is well-formed.  With isValid false the      *)
(* invalidReason is one of the five slugs and the status is HTTP 200;      *)
(* with isValid true there is no invalidReason; the payer is always the    *)
(* payload's authorization.from.                                           *)
(***************************************************************************)
InvalidReasons ==
    {"authorization_expired", "nonce_already_used", "insufficient_amount",
     "recipient_mismatch", "invalid_signature"}

\* The request was answered with a VerifyResponse.
IsVerifyResponse(q) == q.pc = "done" /\ q.kind = "verify" /\ q.result.ok

C11_VerifyResponseWellFormed ==
    \A r \in Requests :
        IsVerifyResponse(reqs[r]) =>
            /\ reqs[r].status = 200
            /\ ~reqs[r].result.value.is_valid
                   => reqs[r].result.value.invalid_reason \in InvalidReasons
            /\ reqs[r].result.value.is_valid
                   => reqs[r].result.value.invalid_reason = NONE
            /\ reqs[r].result.value.payer = AuthOf(reqs[r]).from

C11_Witness ==
    /\ \E r \in Requests : IsValidVerify(reqs[r]) /\ AuthOf(reqs[r]).from = OTHER_PAYER
    /\ \E r \in Requests : IsInvalidFor(reqs[r], "recipient_mismatch")

(***************************************************************************)
(* C12: when has_nonce has found the nonce unused, the window is valid at  *)
(* the time of the checks and both amounts parse, the checks answer        *)
(* insufficient_amount exactly when value < maxAmountRequired; and no      *)
(* verify whose value is at least maxAmountRequired is ever answered       *)
(* insufficient_amount.                                                    *)
(***************************************************************************)
PaymentAmount(q) == parse_u128(AuthOf(q).value)

RequiredAmount(q) == parse_u128(q.request.payment_requirements.max_amount_required)

C12_InsufficientIffBelowRequired ==
    /\ [][\A r \in Requests :
            ( /\ reqs[r].pc = "checks"
              /\ reqs'[r].pc # "checks"
              /\ is_valid_now(AuthOf(reqs[r]), now) = ParseOk(TRUE)
              /\ PaymentAmount(reqs[r]).ok
              /\ RequiredAmount(reqs[r]).ok )
            => ( IsInvalidFor(reqs'[r], "insufficient_amount")
                   <=> PaymentAmount(reqs[r]).value < RequiredAmount(reqs[r]).value )]_vars
    /\ [](\A r \in Requests :
            ( /\ IsVerify(reqs[r])
              /\ PaymentAmount(reqs[r]).ok
              /\ RequiredAmount(reqs[r]).ok
              /\ PaymentAmount(reqs[r]).value >= RequiredAmount(reqs[r]).value )
            => ~IsInvalidFor(reqs[r], "insufficient_amount"))

C12_Witness ==
    /\ \E r \in Requests :
          IsInvalidFor(reqs[r], "insufficient_amount") /\ PaymentAmount(reqs[r]).value = 9
    /\ \E r \in Requests :
          IsValidVerify(reqs[r]) /\ PaymentAmount(reqs[r]).value = 11

(***************************************************************************)
(* C13: a /verify or /settle request that the handler receives with an     *)
(* x402_version other than 1 is answered HTTP 400 in the step that         *)
(* receives it: it gets no verify or settle response, no check runs for    *)
(* it and the nonce store is as it was.                                    *)
(***************************************************************************)
HasWrongVersion(q) ==
    /\ q.pc # "idle"
    /\ Json_from_request(q.request)
    /\ q.request.x402_version # X402_VERSION

C13_WrongVersionIs400 ==
    /\ [](\A r \in Requests :
            HasWrongVersion(reqs[r]) =>
                /\ reqs[r].pc = "done"
                /\ reqs[r].status = 400
                /\ reqs[r].result = Pending)
    /\ [][\A r \in Requests :
            (reqs[r].pc = "idle" /\ HasWrongVersion(reqs'[r]))
                => nonces' = nonces /\ redis' = redis]_vars

C13_Witness ==
    /\ \E r \in Requests : HasWrongVersion(reqs[r]) /\ reqs[r].kind = "verify"
    /\ \E r \in Requests : HasWrongVersion(reqs[r]) /\ reqs[r].kind = "settle"

(***************************************************************************)
(* C14: a /verify whose value, maxAmountRequired, validAfter or            *)
(* validBefore is not a decimal integer is answered HTTP 400 or 422.       *)
(* Requests that met a store failure are left aside.                       *)
(***************************************************************************)
HasMalformedNumber(q) ==
    \/ ~PaymentAmount(q).ok
    \/ ~RequiredAmount(q).ok
    \/ ~parse_i64(AuthOf(q).valid_after).ok
    \/ ~parse_i64(AuthOf(q).valid_before).ok

C14_MalformedNumberIsProtocolError ==
    \A r \in Requests :
        ( /\ IsVerify(reqs[r])
          /\ HasMalformedNumber(reqs[r])
          /\ reqs[r].result.error # "storage" )
        => reqs[r].status \in {400, 422}

(***************************************************************************)
(* C15: /verify never returns isValid:true for a nonce that does not       *)
(* hex-decode to exactly 32 bytes, and the nonce store never holds such a  *)
(* nonce string.                                                           *)
(***************************************************************************)
C15_NonceIs32Bytes ==
    /\ \A r \in Requests :
          IsValidVerify(reqs[r]) => nonce_is_32_bytes(NonceOf(reqs[r]))
    /\ \A n \in NonceStrings :
          storage_has_nonce(n) => nonce_is_32_bytes(n)

(***************************************************************************)
(* C16: a request body with the top-level fields paymentPayload and        *)
(* paymentRequirements in camelCase, with or without x402Version, as       *)
(* FacilitatorClient::verify and FacilitatorClient::settle send it, is     *)
(* never rejected for its top-level fields.                                *)
(***************************************************************************)
C16_CamelCaseBodyAccepted ==
    \A r \in Requests :
        ( /\ reqs[r].pc = "done"
          /\ {"paymentPayload", "paymentRequirements"} \subseteq DOMAIN reqs[r].request )
        => reqs[r].status # UNPROCESSABLE_ENTITY

(***************************************************************************)
(* C17: on the in-memory store, after any sequence of mark_nonce and       *)
(* remove_nonce calls, has_nonce(n) answers true exactly when a            *)
(* mark_nonce(n) has returned and no remove_nonce(n) has returned after    *)
(* the latest of them; on a new store it answers false for every n.        *)
(***************************************************************************)
\* The calls of history h that mark or remove nonce n.
WritesOf(h, n) ==
    { i \in 1..Len(h) : h[i].nonce = n /\ h[i].op \in {"mark_nonce", "remove_nonce"} }

\* The latest of them is a mark_nonce.
MarkedIn(h, n) ==
    \E i \in WritesOf(h, n) :
        h[i].op = "mark_nonce" /\ \A j \in WritesOf(h, n) : j <= i

C17_HasNonceIffMarkedAndNotRemoved ==
    /\ \A n \in NonceStrings :
          InMemoryStorage_has_nonce(nonces, n) <=> MarkedIn(calls, n)
    /\ \A i \in 1..Len(calls) :
          calls[i].op = "has_nonce"
              => calls[i].answer = MarkedIn(SubSeq(calls, 1, i - 1), calls[i].nonce)

C17_Witness ==
    /\ Len(calls) = 4
    /\ calls[1] = Call("mark_nonce", NONCE_1, NONE)
    /\ calls[2] = Call("has_nonce", NONCE_1, TRUE)
    /\ calls[3] = Call("remove_nonce", NONCE_1, NONE)
    /\ calls[4] = Call("has_nonce", NONCE_1, FALSE)

(***************************************************************************)
(* C18: mark_nonce is idempotent.  A mark_nonce(n) on a store that already *)
(* holds n returns success, leaves the store as it was, which is as one    *)
(* mark_nonce(n) leaves it, and has_nonce(n) is still true.                *)
(***************************************************************************)
\* This step is the return of a call of op on n.
Returns(op, n) ==
    /\ Len(calls') = Len(calls) + 1
    /\ calls'[Len(calls')].op = op
    /\ calls'[Len(calls')].nonce = n

C18_MarkNonceIdempotent ==
    [][\A n \in NonceStrings :
          (Returns("mark_nonce", n) /\ InMemoryStorage_has_nonce(nonces, n))
              => /\ calls'[Len(calls')].ok
                 /\ nonces' = nonces
                 /\ nonces' = InMemoryStorage_mark_nonce(
                                  InMemoryStorage_remove_nonce(nonces, n), n)
                 /\ InMemoryStorage_has_nonce(nonces', n)]_vars

C18_Witness ==
    /\ Len(calls) = 3
    /\ calls[1] = Call("mark_nonce", NONCE_2, NONE)
    /\ calls[2] = Call("mark_nonce", NONCE_2, NONE)
    /\ calls[3] = Call("has_nonce", NONCE_2, TRUE)

(***************************************************************************)
(* C19: mark_nonce(n) and remove_nonce(n) leave has_nonce(m) as it was for *)
(* every nonce m other than n.                                             *)
(***************************************************************************)
C19_OtherNoncesUntouched ==
    [][\A n, m \in NonceStrings :
          ( /\ m # n
            /\ Returns("mark_nonce", n) \/ Returns("remove_nonce", n) )
          => ( InMemoryStorage_has_nonce(nonces', m)
                 <=> InMemoryStorage_has_nonce(nonces, m) )]_vars

C19_Witness ==
    /\ Len(calls) = 3
    /\ calls[1] = Call("mark_nonce", NONCE_1, NONE)
    /\ calls[2] = Call("mark_nonce", NONCE_2, NONE)
    /\ calls[3] = Call("remove_nonce", NONCE_2, NONE)
    /\ InMemoryStorage_has_nonce(nonces, NONCE_1)
    /\ ~InMemoryStorage_has_nonce(nonces, NONCE_2)

(***************************************************************************)
(* C20 as claimed: the set of recorded nonces only grows, in either store. *)
(***************************************************************************)
C20_RecordedNoncesOnlyGrow ==
    [][ /\ DOMAIN nonces \subseteq DOMAIN nonces'
        /\ DOMAIN redis \subseteq DOMAIN redis' ]_vars

(***************************************************************************)
(* C20 as amended: no step of a /verify or /settle request removes a       *)
(* nonce, and a settlement that is refused leaves the store as it was.     *)
(* The in-memory set only grows; the durable store loses a key only in a   *)
(* step of the clock, when the key's 24 hour time to live has run out.     *)
(***************************************************************************)
C20_NoRequestRemovesNonce ==
    [][ /\ DOMAIN nonces \subseteq DOMAIN nonces'
        /\ \A k \in DOMAIN redis \ DOMAIN redis' :
              reqs' = reqs /\ now' > now /\ redis[k].expire_at <= now'
        /\ \A r \in Requests :
              (reqs[r].pc = "idle" /\ reqs'[r].kind = "settle")
                  => nonces' = nonces /\ redis' = redis ]_vars

C20_Witness ==
    /\ backend = "memory"
    /\ IsValidVerify(reqs[1])
    /\ reqs[2].pc = "done" /\ reqs[2].kind = "settle" /\ reqs[2].status # 200
    /\ reqs[2].after_valid
    /\ NonceOf(reqs[1]) \in DOMAIN nonces

(***************************************************************************)
(* C21: every successful settle response has success true, no             *)
(* errorReason, the payload's network, the payload's authorization.from as *)
(* payer, and as transaction "0x" followed by the 64 hexadecimal digits of *)
(* 32 bytes.                                                               *)
(***************************************************************************)
\* "0x" and then the hexadecimal digits of exactly 32 bytes.
IsHash32(s) ==
    /\ Len(s) = 66
    /\ s[1] = "0" /\ s[2] = "x"
    /\ hex_decode(SubSeq(s, 3, Len(s))).ok
    /\ Len(hex_decode(SubSeq(s, 3, Len(s))).value) = 32

C21_SettleResponseWellFormed ==
    \A r \in Requests :
        IsSettled(reqs[r]) =>
            /\ reqs[r].result.value.success
            /\ reqs[r].result.value.error_reason = NONE
            /\ reqs[r].result.value.network = reqs[r].request.payment_payload.network
            /\ reqs[r].result.value.payer = AuthOf(reqs[r]).from
            /\ IsHash32(reqs[r].result.value.transaction)

C21_Witness ==
    \E r \in Requests :
        /\ IsSettled(reqs[r])
        /\ reqs[r].request.payment_payload.network = "base"
        /\ reqs[r].result.value.transaction = mock_transaction_hash(255)

(***************************************************************************)
(* C22: for each of the network tags base, base-sepolia, avalanche and     *)
(* avalanche-fuji signature verification builds the EIP-712 domain of that *)
(* network's row (name, version 2, chainId, USDC contract) and does not    *)
(* fail; for any other tag it fails with the unsupported-network error.    *)
(***************************************************************************)
\* The call that returned last is a call of op.
LastCall(op) == Len(calls) = 1 /\ calls[1].op = op

SupportedNetworkTags == {"base", "base-sepolia", "avalanche", "avalanche-fuji"}

\* The rows of the domain table.
UsdcDomainRow(tag) ==
    CASE tag = "base" ->
             Domain(USD_COIN, <<"2">>, 8453, Address_from_str(USDC_BASE).value)
      [] tag = "base-sepolia" ->
             Domain(USDC, <<"2">>, 84532, Address_from_str(USDC_BASE_SEPOLIA).value)
      [] tag = "avalanche" ->
             Domain(USD_COIN, <<"2">>, 43114, Address_from_str(USDC_AVALANCHE).value)
      [] tag = "avalanche-fuji" ->
             Domain(USDC, <<"2">>, 43113, Address_from_str(USDC_AVALANCHE_FUJI).value)

C22_DomainFromNetworkRow ==
    LastCall("verify_payment_payload_domain") =>
        IF calls[1].input \in SupportedNetworkTags
        THEN /\ calls[1].output.ok
             /\ calls[1].output.domain = UsdcDomainRow(calls[1].input)
        ELSE /\ ~calls[1].output.ok
             /\ calls[1].output.error = "Unsupported network"

(***************************************************************************)
(* C23: the domain separator is keccak256 of five 32-byte words:           *)
(* DOMAIN_TYPE_HASH, keccak256(name), keccak256(version), chainId as a     *)
(* 32-byte big-endian integer and the verifying contract left-padded with  *)
(* zeros to 32 bytes; the last two are words, not digests.                 *)
(***************************************************************************)
DomainSeparatorOfWords(domain) ==
    keccak256(keccak256(as_bytes(EIP712_DOMAIN_TYPE))
              \o keccak256(as_bytes(domain.name))
              \o keccak256(as_bytes(domain.version))
              \o to_be_bytes(domain.chain_id, 32)
              \o Bytes([i \in 1..12 |-> 0] \o domain.verifying_contract))

C23_DomainSeparatorOfPaddedWords ==
    LastCall("hash_domain") =>
        calls[1].output = DomainSeparatorOfWords(calls[1].input)

(***************************************************************************)
(* C24: the struct hash of a TransferWithAuthorization is one keccak256    *)
(* over seven 32-byte words: STRUCT_TYPE_HASH, from and to padded, value,  *)
(* validAfter and validBefore big-endian, and the 32 bytes of the nonce;   *)
(* the six fields are not hashed on their own first.                       *)
(***************************************************************************)
\* The number a string "0x" and hexadecimal digits stands for.
RECURSIVE HexDigitsValue(_)
HexDigitsValue(s) ==
    IF Len(s) = 0 THEN 0
    ELSE HexDigitsValue(SubSeq(s, 1, Len(s) - 1)) * 16 + HexVal(s[Len(s)])

HexNumber(s) == HexDigitsValue(SubSeq(s, 3, Len(s)))

StructHashOfWords(message) ==
    keccak256(keccak256(as_bytes(TRANSFER_WITH_AUTHORIZATION \o TRANSFER_FIELDS))
              \o Bytes([i \in 1..12 |-> 0] \o Address_from_str(message.from).value)
              \o Bytes([i \in 1..12 |-> 0] \o Address_from_str(message.to).value)
              \o to_be_bytes(HexNumber(message.value), 32)
              \o to_be_bytes(HexNumber(message.validAfter), 32)
              \o to_be_bytes(HexNumber(message.validBefore), 32)
              \o Bytes(hex_decode(SubSeq(message.nonce, 3, Len(message.nonce))).value))

C24_StructHashOfSevenWords ==
    LastCall("hash_struct") =>
        /\ calls[1].output.ok
        /\ calls[1].output.value = StructHashOfWords(calls[1].input)

(***************************************************************************)
(* C25: verify_eip712_signature takes a 65-byte signature whose last byte  *)
(* v is 0, 1, 27 or 28, with 27 and 28 standing for 0 and 1, and answers   *)
(* whether the recovered address is the expected one; every signature of   *)
(* another length or another v is rejected with invalid_signature.         *)
(***************************************************************************)
NormalisedRecoveryId(v) == IF v >= 27 THEN v - 27 ELSE v

C25_RecoveryByteNormalised ==
    LastCall("verify_eip712_signature") =>
        LET signature == calls[1].input.signature
            message_hash == calls[1].input.message_hash
        IN  IF /\ signature.hex
               /\ 64 + Len(signature.tail) = 65
               /\ signature.tail[1] \in {0, 1, 27, 28}
            THEN calls[1].output =
                     BoolOk(VerifyingKey_recover_from_prehash(
                                message_hash, signature.rs,
                                NormalisedRecoveryId(signature.tail[1])).value
                            = calls[1].input.expected_address)
            ELSE /\ ~calls[1].output.ok
                 /\ calls[1].output.error = "invalid_signature"

\* C26: decoding the base64 text a payload was encoded to succeeds, and gives
\* a payload equal to it in every field.
C26_Base64RoundTrip ==
    \A i \in 1..Len(calls) :
        calls[i].op = "from_base64" =>
            /\ calls[i].output.ok
            /\ calls[i].output.value = calls[i].input.payload

\* A payload whose scheme holds a quote and a backslash came back whole.
C26_Witness ==
    \E i \in 1..Len(calls) :
        /\ calls[i].op = "from_base64"
        /\ calls[i].output.ok
        /\ calls[i].output.value.scheme = SCHEME_QUOTED
        /\ calls[i].output.value.payload.signature = <<BACKSLASH>>
        /\ calls[i].output.value = calls[i].input.payload

ValidAfterOf(q) == parse_i64(AuthOf(q).valid_after).value

\* The validity times of the request's authorization are decimal integers.
HasValidityTimes(q) ==
    /\ parse_i64(AuthOf(q).valid_after).ok
    /\ parse_i64(AuthOf(q).valid_before).ok

(***************************************************************************)
(* C27: is_valid_now is true exactly when validAfter <= now <= validBefore, *)
(* both bounds included, and a /verify of a payload for which it is false  *)
(* is answered authorization_expired, a payload that is not yet valid      *)
(* included.  The clock is read where verify_payment decides: the answers  *)
(* it gives up to its timing check.                                        *)
(***************************************************************************)
C27_InvalidNowIsAuthorizationExpired ==
    [][\A r \in Requests :
          ( /\ reqs[r].pc \in {"has_nonce", "checks"}
            /\ IsVerify(reqs'[r])
            /\ HasValidityTimes(reqs'[r])
            /\ reqs'[r].result.error # "storage" )
          => /\ is_valid_now(AuthOf(reqs'[r]), now).value
                   <=> ( /\ ValidAfterOf(reqs'[r]) <= now
                         /\ now <= ValidBeforeOf(reqs'[r]) )
             /\ ~is_valid_now(AuthOf(reqs'[r]), now).value
                   => IsInvalidFor(reqs'[r], "authorization_expired")]_vars

\* The key of the factory's map an operation asks for.
OperationKey(op) == IF op = "verify_with_network_validation" THEN "verify" ELSE op

\* The headers of a request beyond those its method and body give it.
AuthHeadersOf(request) ==
    request.headers \ (IF request.method = "POST"
                       THEN {Header(CONTENT_TYPE, "application/json")} ELSE {})

\* The map the factory of the client returned under this key, names in the
\* lower case HTTP compares them in; nothing when there is no factory, or
\* no map under the key.
FactoryHeaders(client, key) ==
    IF client.auth_config.present /\ client.auth_config.ok
       /\ key \in DOMAIN client.auth_config.headers
    THEN { Header(to_ascii_lowercase(h[1]), h[2]) :
               h \in client.auth_config.headers[key] }
    ELSE {}

(***************************************************************************)
(* C28: the authentication headers of every request an operation sends are *)
(* exactly the map the factory returned under the key of the operation; a  *)
(* client without a factory adds none.                                     *)
(***************************************************************************)
C28_AuthHeadersOfOperationKey ==
    \A i \in 1..Len(calls) : \A j \in 1..Len(calls[i].sent) :
        AuthHeadersOf(calls[i].sent[j]) =
            FactoryHeaders(calls[i].client, OperationKey(calls[i].op))

\* A list request of the client whose factory has a map under every key went
\* out with the list map alone.
C28_Witness ==
    \E i \in 1..Len(calls) :
        /\ calls[i].op = "list"
        /\ calls[i].client.auth_config.headers = HeadersForAll
        /\ Len(calls[i].sent) = 1
        /\ AuthHeadersOf(calls[i].sent[1]) =
               {Header(to_ascii_lowercase(AUTHORIZATION), "list")}

InputMismatch(input) ==
    \/ input.payment_payload.network # input.payment_requirements.network
    \/ input.payment_payload.scheme # input.payment_requirements.scheme

IsBrowser(request) ==
    contains(request.accept, TEXT_HTML) /\ contains(request.user_agent, MOZILLA)

C30_MissingHeaderIs402 ==
    \A i \in 1..Len(calls) :
        (calls[i].op = "process_payment" /\ ~calls[i].input.request.x_payment.present)
        => LET answered == calls[i].output
               required == create_payment_requirements(
                               calls[i].input.middleware.config,
                               calls[i].input.request.uri)
           IN  /\ answered.response.status = PAYMENT_REQUIRED
               /\ answered.response.body.kind =
                      (IF ~IsBrowser(calls[i].input.request) THEN "json"
                       ELSE IF calls[i].input.middleware.config.custom_paywall_html # NONE
                            THEN "custom_html" ELSE "paywall")
               /\ answered.response.body.kind # "custom_html"
                      => answered.response.body.accepts = <<required>>
               /\ \A j \in 1..Len(answered.events) : answered.events[j] # "handler"

\* C31: in the payment middleware the protected handler runs only after the
\* facilitator has answered verify with isValid:true for the request's
\* payload; when the X-PAYMENT header cannot be decoded, when verification
\* returns an error, or when isValid is false, the handler is never run and
\* settle is never called.
IsMiddlewareCall(call) == call.op \in {"process_payment", "PaymentService::call"}

AnsweredValid(call) ==
    /\ status_is_success(call.input.verify_answer.status)
    /\ call.input.verify_answer.body = IS_VALID_TRUE

Position(events, event) ==
    IF \E j \in 1..Len(events) : events[j] = event
    THEN CHOOSE j \in 1..Len(events) :
             events[j] = event /\ \A k \in 1..(j - 1) : events[k] # event
    ELSE 0

C31_HandlerOnlyAfterValidVerify ==
    \A i \in 1..Len(calls) :
        IsMiddlewareCall(calls[i])
        => LET events == calls[i].output.events
           IN  /\ Position(events, "handler") > 0
                      => /\ AnsweredValid(calls[i])
                         /\ 0 < Position(events, "verify")
                         /\ Position(events, "verify") < Position(events, "handler")
               /\ Position(events, "settle") > 0
                      => /\ AnsweredValid(calls[i])
                         /\ 0 < Position(events, "verify")
                         /\ Position(events, "verify") < Position(events, "settle")

\* C32: the payment middleware settles a payment only when the protected
\* handler succeeded: if the handler's response is an error response, settle
\* is not called for that request.
HandlerFailed(call) ==
    IF call.op = "process_payment"
    THEN call.input.handler_response.status >= 400
    ELSE \/ ~call.input.handler_result.ok
         \/ call.input.handler_result.response.status >= 400

C32_SettleOnlyAfterHandlerSuccess ==
    \A i \in 1..Len(calls) :
        (/\ IsMiddlewareCall(calls[i])
         /\ Position(calls[i].output.events, "handler") > 0
         /\ HandlerFailed(calls[i]))
        => Position(calls[i].output.events, "settle") = 0

\* C37: process_payment returns PaymentResult::Success, and the handler's
\* response with an X-PAYMENT-RESPONSE header, only if the settle response of
\* the facilitator has success = true.
C37_SuccessOnlyIfSettled ==
    \A i \in 1..Len(calls) :
        (calls[i].op = "process_payment" /\ calls[i].output.result = "Success")
        => /\ status_is_success(calls[i].input.settle_answer.status)
           /\ calls[i].input.settle_answer.body = SUCCESS_TRUE
           /\ calls[i].output.response.x_payment_response = SUCCESS_TRUE

\* C39: for every configured amount create_payment_requirements produces a
\* maxAmountRequired that is a decimal integer string in atomic units, the
\* amount times 10^6 without fraction and without sign, which parses as an
\* unsigned 128-bit integer.
C39_MaxAmountIsAtomicInteger ==
    \A i \in 1..Len(calls) :
        calls[i].op = "create_payment_requirements"
        => LET amount == calls[i].input.config.amount
               text == calls[i].output.max_amount_required
           IN  /\ AllDigits(text)
               /\ parse_u128(text).ok
               /\ parse_u128(text).value * (10 ^ amount.scale) = amount.mantissa * 1000000

\* C40: PaymentMiddleware::verify returns true only if a facilitator request
\* was made and its response had isValid = true; when the client cannot be
\* built, the request fails, or the facilitator answers with a status that is
\* no success, it returns false.
C40_VerifyFailsClosed ==
    \A i \in 1..Len(calls) :
        calls[i].op = "PaymentMiddleware::verify"
        => LET answer == calls[i].input.verify_answer
               built == \/ calls[i].input.middleware.facilitator.present
                        \/ FacilitatorConfig_validate(
                               calls[i].input.middleware.config.facilitator_config)
           IN  calls[i].output.value
               <=> /\ built
                   /\ Len(calls[i].output.sent) = 1
                   /\ calls[i].output.sent[1].path = "/verify"
                   /\ status_is_success(answer.status)
                   /\ answer.body = IS_VALID_TRUE

C40_Witness ==
    \E i \in 1..Len(calls) :
        /\ calls[i].op = "PaymentMiddleware::verify"
        /\ ~calls[i].output.value
        /\ Len(calls[i].output.sent) = 1
        /\ ~status_is_success(calls[i].input.verify_answer.status)

\* C33: concurrent /verify requests with pairwise distinct nonces do not
\* affect one another: under every interleaving each returns the response it
\* would return alone against the same initial nonce store, and afterwards
\* the store holds the initial nonces and those of the requests that
\* returned isValid:true.
\* The seconds the clock has shown so far.
ClockSoFar ==
    { t \in { Now0 + d : d \in 0..MaxSkew }
            \cup { Now0 + NONCE_TTL_SECONDS + d : d \in 0..MaxSkew } : t <= now }

\* What verify_payment returns for the body when it runs alone against the
\* initial store, which is empty, with its checks made at second t.
AloneAt(body, t) ==
    LET found == nonce_check(InMemoryStorage_has_nonce(<<>>, NonceOf([request |-> body])),
                             body.payment_payload)
        checked == policy_checks(body.payment_payload, body.payment_requirements, t)
    IN  IF found # Pending THEN found
        ELSE IF checked # Pending THEN checked
        ELSE mark_result("ok", body.payment_payload)

AloneResponses(body) ==
    { AloneAt(body, t) : t \in ClockSoFar }
    \cup (IF backend = "redis" THEN {Err("storage")} ELSE {})

\* The request went through verify_payment, or is on its way through it.
InVerifyPayment(q) ==
    /\ q.pc # "idle" /\ q.kind = "verify"
    /\ Json_from_request(q.request)
    /\ q.request.x402_version = X402_VERSION

DistinctNonces ==
    \A r, o \in Requests :
        (r # o /\ InVerifyPayment(reqs[r]) /\ InVerifyPayment(reqs[o]))
        => NonceOf(reqs[r]) # NonceOf(reqs[o])

ValidNonces == { NonceOf(reqs[r]) : r \in { o \in Requests : IsValidVerify(reqs[o]) } }

C33_DistinctNoncesDoNotInterfere ==
    DistinctNonces
    => /\ \A r \in Requests :
              IsVerify(reqs[r]) => reqs[r].result \in AloneResponses(reqs[r].request)
       /\ (\A r \in Requests : reqs[r].pc \in {"idle", "done"})
              => /\ DOMAIN nonces = (IF backend = "memory" THEN ValidNonces ELSE {})
                 /\ DOMAIN redis =
                        (IF backend = "redis"
                         THEN { RedisStorage_make_key(n) :
                                    n \in { m \in ValidNonces :
                                                marked_at[m] + NONCE_TTL_SECONDS > now } }
                         ELSE {})

\* Two verifies with different nonces overlapped, and both were found valid:
\* the one that arrived first recorded its nonce after the other one did.
C33_Witness ==
    /\ IsValidVerify(reqs[1])
    /\ IsValidVerify(reqs[2])
    /\ NonceOf(reqs[1]) # NonceOf(reqs[2])
    /\ marked_at[NonceOf(reqs[1])] > marked_at[NonceOf(reqs[2])]
    /\ backend = "memory"

\* C34: a /verify that returns isValid:false, for any reason, or ends in an
\* error leaves the nonce store as it found it; the only change a /verify
\* makes to the store is adding its own nonce, and it does so only when it
\* returns isValid:true.
C34_VerifyStep(r) ==
    (reqs'[r] # reqs[r] /\ reqs'[r].kind = "verify")
    => IF reqs[r].pc # "done" /\ IsValidVerify(reqs'[r])
       THEN IF backend = "memory"
            THEN /\ DOMAIN nonces' = DOMAIN nonces \cup {NonceOf(reqs'[r])}
                 /\ \A n \in DOMAIN nonces : nonces'[n] = nonces[n]
                 /\ redis' = redis
            ELSE /\ DOMAIN redis' =
                        DOMAIN redis \cup {RedisStorage_make_key(NonceOf(reqs'[r]))}
                 /\ \A k \in DOMAIN redis \ {RedisStorage_make_key(NonceOf(reqs'[r]))} :
                        redis'[k] = redis[k]
                 /\ nonces' = nonces
       ELSE nonces' = nonces /\ redis' = redis

C34_VerifyOnlyAddsOwnNonce == [][\A r \in Requests : C34_VerifyStep(r)]_vars

\* A verify was answered isValid:false or with an error while the store held
\* the nonce another verify had recorded.
C34_Witness ==
    /\ IsValidVerify(reqs[1])
    /\ reqs[2].pc = "done" /\ reqs[2].kind = "verify"
    /\ ~IsValidVerify(reqs[2])
    /\ DOMAIN nonces \cup DOMAIN redis # {}

\* C35: after /verify has returned isValid:true for a payload, a following
\* /settle of the same payload and requirements returns success:true; the
\* nonce the verification recorded does not make the settlement a replay.
SettlesVerified(r) ==
    /\ reqs[r].pc = "done" /\ reqs[r].kind = "settle"
    /\ Json_from_request(reqs[r].request)
    /\ reqs[r].after_valid
    /\ \E o \in Requests :
          /\ IsValidVerify(reqs[o])
          /\ reqs[o].request = reqs[r].request

C35_SettleAfterVerifySucceeds ==
    \A r \in Requests :
        SettlesVerified(r)
        => /\ reqs[r].status = 200
           /\ reqs[r].result.ok
           /\ reqs[r].result.value.success
           /\ reqs[r].result.value.error_reason = NONE

\* The settlement came while the store still held the nonce.
C35_Witness ==
    \E r \in Requests :
        /\ SettlesVerified(r)
        /\ storage_has_nonce(NonceOf(reqs[r]))
        /\ reqs[r].result.value.success

\* C36: replay protection identifies a nonce by its 32-byte value: two nonce
\* strings that decode to the same 32 bytes, differing only in the case of
\* the hexadecimal letters or in the 0x prefix, are the same nonce, so after
\* a successful verify with one spelling a verify with the other spelling
\* returns nonce_already_used.
NonceBytes(nonce_str) == hex_decode(trim_start_matches_0x(nonce_str))

SameNonceBytes(a, b) ==
    /\ nonce_is_32_bytes(a)
    /\ nonce_is_32_bytes(b)
    /\ NonceBytes(a).value = NonceBytes(b).value

\* Request r gets the answer of has_nonce in this step, while the store holds
\* the nonce of the bytes of its own that the verify o recorded.
C36_LooksUp(r, o) ==
    /\ reqs[r].pc = "has_nonce"
    /\ reqs'[r].pc # "has_nonce"
    /\ reqs'[r].result.error # "storage"
    /\ IsValidVerify(reqs[o])
    /\ storage_has_nonce(NonceOf(reqs[o]))
    /\ SameNonceBytes(NonceOf(reqs[o]), NonceOf(reqs[r]))

C36_NonceIdentifiedByBytes ==
    [][\A r, o \in Requests :
          C36_LooksUp(r, o) => IsInvalidFor(reqs'[r], "nonce_already_used")]_vars

\* C38: under fair scheduling every /verify and /settle request against the
\* in-memory store eventually completes with a response, however many
\* requests run at once: no request holds the store's lock while it waits
\* for the lock or across another suspension point, so no set of requests
\* can deadlock.
Arrived(r) == reqs[r].pc # "idle"

Completed(r) == reqs[r].pc = "done" /\ reqs[r].status # 0

C38_EveryRequestCompletes == \A r \in Requests : Arrived(r) ~> Completed(r)

\* One request holds the write lock while another waits for it.
C38_Witness ==
    \E r, o \in Requests :
        /\ reqs[r].pc = "writing" /\ lock.writer = r
        /\ reqs[o].pc = "mark_nonce"

====
